---- MODULE Spec2Model ----
(***************************************************************************)
(* A model of the retrieval/fusion engine (HybridVectorStore), the         *)
(* reranker (Reranker, MockReranker) and the query pipeline (RAGPipeline)  *)
(* of the advanced RAG demo.                                               *)
(*                                                                         *)
(* Numbers.  The fused score of reciprocalRankFusion is a rational; it is  *)
(* kept exactly, as an integer number of units of 1/(AlphaDen * Scale),    *)
(* where alpha = alphaNum/AlphaDen and Scale is a common multiple of the   *)
(* denominators k + rank + 1 of the ranks the model reaches.               *)
(*                                                                         *)
(* Text.  A chunk's pageContent is the pair <<first 100 characters, the    *)
(* rest>>, so two different chunks may share their first 100 characters.   *)
(***************************************************************************)
EXTENDS Integers, Sequences, FiniteSets, TLC

VARIABLES
    hsQuery,          \* hybridSearch: the query (a sequence of words split at ' ')
    hsLimit,          \* hybridSearch: limit
    hsAlpha,          \* hybridSearch: alpha, as a numerator over AlphaDen
    vectorResults,    \* what vectorSearch returned
    keywordResults,   \* what keywordSearch returned
    hsResult,         \* what hybridSearch returned
    hsPc,             \* where the hybridSearch call is
    rrMock,           \* the reranker is the MockReranker (else the Cohere Reranker)
    rrQuery,          \* rerank: query (a text)
    rrResults,        \* rerank: results
    rrTopK,           \* rerank: topK
    rrPc,             \* where the reranker call is
    rrReturn,         \* what the reranker returned
    cohereCalls,      \* calls of this.cohere.rerank made in the reranker call
    cohereFailures,   \* those of them that threw
    isMockMode,       \* RAGPipeline.isMockMode
    msDocuments,      \* the documents of the pipeline's own MockVectorStore
    plOp,             \* the pipeline operation called: "query" or "streamQuery"
    question,         \* its question (a text; in SpecRetrieval its words, split at ' ')
    useReranking,     \* options.useReranking
    useHybridSearch,  \* options.useHybridSearch
    plPc,             \* where the operation is
    plError,          \* the stage whose failure rejected the operation, "" if none
    retrieved,        \* what vectorStore.hybridSearch returned
    searchResults,    \* the local searchResults
    ragResponse,      \* <<the RAGResponse query() returned>>, <<>> before and without
    events,           \* the events streamQuery has yielded to its consumer
    hybridSearchCalls, \* calls of vectorStore.hybridSearch
    rerankerCalls,    \* calls of reranker.rerankWithMetadata
    llmContexts,      \* the context of each call of the Answer Generator
    llmStream,        \* the fragments MockLLM.streamAnswer has still to yield
    llmRead,          \* chunks read from the live LLM stream
    pulls,            \* calls of next() the consumer has made on streamQuery's generator
    clockTicks,       \* the advances the clock may make between two readings of it
    now,              \* the clock: what Date.now() returns, counted from the call
    rerankingStart,   \* query's local rerankingStart
    metrics,          \* query's local metrics
    flows,            \* concurrent calls of query/streamQuery on one pipeline: per call
                      \* its arguments, where it is, what its collaborators returned
                      \* to it, and what it returned
    frames,           \* the local variables of those calls, per activation frame
    completionOrder,  \* the calls that have resolved, in the order they resolved
    cmpPc,            \* where the /api/compare request is
    cmpQuestion,      \* its req.body.question
    cmpResponse,      \* <<the response sent>>, <<>> before
    storeDocuments,   \* MockVectorStore.documents of a store used on its own
    storeEmbeddings,  \* MockVectorStore.embeddings of that store
    addCalls,         \* its addDocuments calls waiting at their await, oldest first:
                      \* the embeddings each will push
    mockLog,          \* the calls made of the mock services, each with its arguments
                      \* and what it has returned or yielded
    cpDocuments,      \* processDocuments: its argument documents
    cpDone,           \* processDocuments: the documents its loop has been through
    allChunks         \* processDocuments: the local allChunks

hsVars == <<hsQuery, hsLimit, hsAlpha, vectorResults, keywordResults, hsResult, hsPc>>

rrVars == <<rrMock, rrQuery, rrResults, rrTopK, rrPc, rrReturn, cohereCalls, cohereFailures>>

plVars == <<isMockMode, msDocuments, plOp, question, useReranking, useHybridSearch, plPc,
            plError, retrieved, searchResults, ragResponse, events, hybridSearchCalls,
            rerankerCalls, llmContexts, llmStream, llmRead, pulls, clockTicks, now,
            rerankingStart, metrics>>

\* what query() keeps of the clock
clockVars == <<now, rerankingStart, metrics>>

cfVars == <<flows, frames, completionOrder, cmpPc, cmpQuestion, cmpResponse>>

\* a MockVectorStore and the mock services called on their own, and the chunking
mkVars == <<storeDocuments, storeEmbeddings, addCalls, mockLog, cpDocuments, cpDone, allChunks>>

vars == <<hsVars, rrVars, plVars, cfVars, mkVars>>

----------------------------------------------------------------------------
(* Bounds of the model *)

\* the largest limit a caller passes to hybridSearch
MaxLimit == 3

\* the largest number of points the index holds that match a search
MaxHits == 2

\* alpha ranges over 0/AlphaDen .. AlphaDen/AlphaDen
AlphaDen == 4

\* the chunk texts in the index: "a" and "a" + "x" share their first 100 characters
Contents == { <<"a", "">>, <<"a", "x">>, <<"b", "">>, <<"c", "">> }

\* queries, split at ' ': one with no term longer than 2 characters, one with a term
Queries == { <<"">>, <<"is", "it">>, <<"the", "api">> }

Alphas == 0..AlphaDen

Min(a, b) == IF a <= b THEN a ELSE b

----------------------------------------------------------------------------
(* HybridVectorStore *)

\* const k = 60
k == 60

\* pageContent.substring(0, 100)
substring100(pageContent) == pageContent[1]

RECURSIVE RankDen(_)
RankDen(n) == IF n = 0 THEN 1 ELSE (k + n) * RankDen(n - 1)

\* a common multiple of k + rank + 1 for every rank of a list the index returns
Scale == RankDen(Min(2 * MaxLimit, MaxHits))

\* 1 / (k + rank + 1), in units of 1/Scale
rrfUnit(rank) == Scale \div (k + rank + 1)

\* the lists of at most n chunk texts the index may return
RECURSIVE HitLists(_)
HitLists(n) ==
    IF n = 0 THEN { <<>> }
    ELSE HitLists(n - 1) \cup
         { Append(s, c) : s \in { t \in HitLists(n - 1) : Len(t) = n - 1 }, c \in Contents }

\* vectorSearch: client.search honours the limit; each hit carries the
\* similarity the index reported for it (opaque: named by the hit's rank)
vectorSearch(hits) ==
    [i \in 1..Len(hits) |->
        [document |-> hits[i],
         score |-> [similarity |-> i - 1],
         vectorScore |-> [similarity |-> i - 1]]]

\* query.toLowerCase().split(' ').filter(t => t.length > 2)
searchTerms(query) == SelectSeq(query, LAMBDA t : Len(t) > 2)

\* keywordSearch: no terms, no results; else the scroll's points, scored by position
keywordSearch(query, points) ==
    IF Len(searchTerms(query)) = 0 THEN <<>>
    ELSE [idx \in 1..Len(points) |->
            [document |-> points[idx],
             score |-> [num |-> Len(points) - (idx - 1), den |-> Len(points)],
             keywordScore |-> [num |-> Len(points) - (idx - 1), den |-> Len(points)]]]

\* a Map that never finds a key it holds
fusedHasNever(fusedScores, key) == FALSE

\* fusedScores.has(key): the Map is the sequence of its entries in insertion order
fusedHas(fusedScores, key) == \E i \in 1..Len(fusedScores) : fusedScores[i].key = key

\* a forEach body that overwrites the entry's score instead of adding to it
fusedAddOverwrite(fusedScores, result, rrfScore) ==
    LET key == substring100(result.document)
    IN  IF \E i \in 1..Len(fusedScores) : fusedScores[i].key = key
        THEN [i \in 1..Len(fusedScores) |->
                IF fusedScores[i].key = key
                THEN [fusedScores[i] EXCEPT !.score = rrfScore]
                ELSE fusedScores[i]]
        ELSE Append(fusedScores, [key |-> key, result |-> result, score |-> rrfScore])

\* one step of a forEach body: add to the entry of the key, or insert a new entry
fusedAdd(fusedScores, result, rrfScore) ==
    LET key == substring100(result.document)
    IN  IF fusedHas(fusedScores, key)
        THEN [i \in 1..Len(fusedScores) |->
                IF fusedScores[i].key = key
                THEN [fusedScores[i] EXCEPT !.score = @ + rrfScore]
                ELSE fusedScores[i]]
        ELSE Append(fusedScores, [key |-> key, result |-> result, score |-> rrfScore])

\* results.forEach((result, rank) => ...) with rrfScore = weight * (1 / (k + rank + 1))
RECURSIVE fuseList(_, _, _, _)
fuseList(fusedScores, results, rank, weight) ==
    IF rank >= Len(results) THEN fusedScores
    ELSE fuseList(fusedAdd(fusedScores, results[rank + 1], weight * rrfUnit(rank)),
                  results, rank + 1, weight)

\* a comparator that sorts ascending
compareScoreAscending(a, b) == a.score - b.score

\* the comparator of the sort: (a, b) => b.score - a.score
compareScore(a, b) == b.score - a.score

\* a sort that is not stable: x goes before the elements it ties with
RECURSIVE sortedInsertBeforeEqual(_, _)
sortedInsertBeforeEqual(sorted, x) ==
    IF sorted = <<>> THEN <<x>>
    ELSE IF compareScore(Head(sorted), x) < 0
         THEN <<Head(sorted)>> \o sortedInsertBeforeEqual(Tail(sorted), x)
         ELSE <<x>> \o sorted

\* Array.prototype.sort is stable: x goes after every element it does not precede
RECURSIVE sortedInsert(_, _)
sortedInsert(sorted, x) ==
    IF sorted = <<>> THEN <<x>>
    ELSE IF compareScore(Head(sorted), x) <= 0
         THEN <<Head(sorted)>> \o sortedInsert(Tail(sorted), x)
         ELSE <<x>> \o sorted

RECURSIVE sortByScore(_)
sortByScore(items) ==
    IF items = <<>> THEN <<>>
    ELSE sortedInsert(sortByScore(SubSeq(items, 1, Len(items) - 1)), items[Len(items)])

\* a slice that ignores the limit
sliceUnlimited(items, limit) == items

\* .slice(0, limit), limit >= 0
slice(items, limit) == SubSeq(items, 1, Min(limit, Len(items)))

\* the fusion with the two weights exchanged
fusedOrderSwapped(vResults, kResults, alpha) ==
    sortByScore(fuseList(fuseList(<<>>, vResults, 0, AlphaDen - alpha),
                         kResults, 0, alpha))

\* the candidates of the fusion in the order the sort leaves them
fusedOrder(vResults, kResults, alpha) ==
    sortByScore(fuseList(fuseList(<<>>, vResults, 0, alpha),
                         kResults, 0, AlphaDen - alpha))

reciprocalRankFusion(vResults, kResults, alpha, limit) ==
    LET top == slice(fusedOrder(vResults, kResults, alpha), limit)
    IN  [i \in 1..Len(top) |-> [top[i].result EXCEPT !.score = top[i].score]]

\* hybridSearch, line 84: await this.vectorSearch(expanded || original, limit * 2)
hybridSearch_vectorSearch ==
    /\ hsPc = "called"
    /\ \E hits \in HitLists(Min(hsLimit * 2, MaxHits)) :
           vectorResults' = vectorSearch(hits)
    /\ hsPc' = "vectorSearched"
    /\ UNCHANGED <<hsQuery, hsLimit, hsAlpha, keywordResults, hsResult>>
    /\ UNCHANGED <<rrVars, plVars>>
    /\ UNCHANGED <<cfVars, mkVars>>

\* hybridSearch, line 90: await this.keywordSearch(query, limit * 2)
hybridSearch_keywordSearch ==
    /\ hsPc = "vectorSearched"
    /\ \E points \in HitLists(Min(hsLimit * 2, MaxHits)) :
           keywordResults' = keywordSearch(hsQuery, points)
    /\ hsPc' = "keywordSearched"
    /\ UNCHANGED <<hsQuery, hsLimit, hsAlpha, vectorResults, hsResult>>
    /\ UNCHANGED <<rrVars, plVars>>
    /\ UNCHANGED <<cfVars, mkVars>>

\* hybridSearch, line 93: return this.reciprocalRankFusion(...)
hybridSearch_return ==
    /\ hsPc = "keywordSearched"
    /\ hsResult' = reciprocalRankFusion(vectorResults, keywordResults, hsAlpha, hsLimit)
    /\ hsPc' = "returned"
    /\ UNCHANGED <<hsQuery, hsLimit, hsAlpha, vectorResults, keywordResults>>
    /\ UNCHANGED <<rrVars, plVars>>
    /\ UNCHANGED <<cfVars, mkVars>>

\* an empty store, no call of a mock service and no processDocuments call
mkIdle ==
    /\ storeDocuments = <<>>
    /\ storeEmbeddings = <<>>
    /\ addCalls = <<>>
    /\ mockLog = <<>>
    /\ cpDocuments = <<>>
    /\ cpDone = 0
    /\ allChunks = <<>>

\* no concurrent call and no /api/compare request
cfIdle ==
    /\ flows = <<>>
    /\ frames = <<>>
    /\ completionOrder = <<>>
    /\ cmpPc = "idle"
    /\ cmpQuestion = <<>>
    /\ cmpResponse = <<>>

\* no reranker call
rrIdle ==
    /\ rrMock = FALSE
    /\ rrQuery = <<>>
    /\ rrResults = <<>>
    /\ rrTopK = 0
    /\ rrPc = "idle"
    /\ rrReturn = <<>>
    /\ cohereCalls = 0
    /\ cohereFailures = 0

\* const metrics = {retrievalTime: 0, rerankingTime: 0, generationTime: 0, totalTime: 0}
noMetrics == [retrievalTime |-> 0, rerankingTime |-> 0, generationTime |-> 0, totalTime |-> 0]

\* no pipeline operation
plIdle ==
    /\ isMockMode = FALSE
    /\ msDocuments = <<>>
    /\ plOp = "none"
    /\ question = <<>>
    /\ useReranking = FALSE
    /\ useHybridSearch = FALSE
    /\ plPc = "idle"
    /\ plError = ""
    /\ retrieved = <<>>
    /\ searchResults = <<>>
    /\ ragResponse = <<>>
    /\ events = <<>>
    /\ hybridSearchCalls = 0
    /\ rerankerCalls = 0
    /\ llmContexts = <<>>
    /\ llmStream = <<>>
    /\ llmRead = 0
    /\ pulls = 0
    /\ clockTicks = {0}
    /\ now = 0
    /\ rerankingStart = 0
    /\ metrics = noMetrics

\* a call hybridSearch(query, limit, alpha) on a store whose index is any index
InitFusion ==
    /\ rrIdle
    /\ plIdle
    /\ hsQuery \in Queries
    /\ hsLimit \in 0..MaxLimit
    /\ hsAlpha \in Alphas
    /\ hsPc = "called"
    /\ vectorResults = <<>>
    /\ keywordResults = <<>>
    /\ hsResult = <<>>
    /\ cfIdle
    /\ mkIdle

NextFusion ==
    \/ hybridSearch_vectorSearch
    \/ hybridSearch_keywordSearch
    \/ hybridSearch_return

SpecFusion == InitFusion /\ [][NextFusion]_vars

----------------------------------------------------------------------------
(* Properties of the fusion *)

\* the fingerprints of a result list
keysOf(results) == { substring100(results[i].document) : i \in 1..Len(results) }

\* the position of the result with fingerprint key, 0 when there is none
keyPos(results, key) ==
    IF key \in keysOf(results)
    THEN CHOOSE i \in 1..Len(results) : substring100(results[i].document) = key
    ELSE 0

\* sum of 1/(k + r + 1), in units of 1/Scale, over the 0-based ranks r of key in results
RECURSIVE rankSum(_, _, _)
rankSum(results, key, n) ==
    IF n = 0 THEN 0
    ELSE rankSum(results, key, n - 1)
         + (IF substring100(results[n].document) = key THEN Scale \div (k + n) ELSE 0)

\* alpha * (sum over the vector ranks) + (1 - alpha) * (sum over the keyword ranks)
rrfFormula(key, alpha) ==
    alpha * rankSum(vectorResults, key, Len(vectorResults))
    + (AlphaDen - alpha) * rankSum(keywordResults, key, Len(keywordResults))

\* C1: hybridSearch returns at most `limit` results
C1_AtMostLimit ==
    hsPc = "returned" => Len(hsResult) <= hsLimit

\* C1 witness: a call with more fused candidates than the limit, cut to a full page
C1_Witness ==
    /\ hsPc = "returned"
    /\ hsLimit >= 1
    /\ Cardinality(keysOf(vectorResults) \cup keysOf(keywordResults)) > hsLimit
    /\ Len(hsResult) = hsLimit

\* C2: the returned list is sorted in non-increasing order of the score it reports
C2_SortedDescending ==
    hsPc = "returned" =>
        \A i \in 1..(Len(hsResult) - 1) : hsResult[i].score >= hsResult[i + 1].score

\* C2 witness: a returned list whose first result was not the first candidate
\* inserted (the sort moved it up) and scores strictly above the second
C2_Witness ==
    /\ hsPc = "returned"
    /\ Len(hsResult) >= 2
    /\ Len(vectorResults) >= 1
    /\ substring100(hsResult[1].document) # substring100(vectorResults[1].document)
    /\ hsResult[1].score > hsResult[2].score

\* C3: the score of every fused candidate, returned or cut off, is
\* alpha * (sum of 1/(60 + r + 1) over its vector ranks r)
\* + (1 - alpha) * (the same sum over its keyword ranks)
C3_FusedScore ==
    hsPc = "returned" =>
        /\ \A i \in 1..Len(hsResult) :
               hsResult[i].score = rrfFormula(substring100(hsResult[i].document), hsAlpha)
        /\ Len(hsResult) =
               Min(hsLimit, Cardinality(keysOf(vectorResults) \cup keysOf(keywordResults)))

\* C3 witness: a returned candidate found in both lists, twice in one of them,
\* with both weights non-zero
C3_Witness ==
    /\ hsPc = "returned"
    /\ hsAlpha > 0
    /\ hsAlpha < AlphaDen
    /\ \E i \in 1..Len(hsResult) :
          LET key == substring100(hsResult[i].document)
          IN  /\ key \in keysOf(vectorResults) \cap keysOf(keywordResults)
              /\ Len(vectorResults) = 2
              /\ substring100(vectorResults[1].document) = key
              /\ substring100(vectorResults[2].document) = key

\* V is ranked ahead of K in a returned list
rankedAhead(results, V, K) ==
    /\ keyPos(results, V) > 0
    /\ keyPos(results, K) = 0 \/ keyPos(results, V) < keyPos(results, K)

\* C4: with both lists fixed, a vector-only hit V ranked ahead of a keyword-only
\* hit K at alpha is ranked ahead of K at every larger alpha up to 1
C4_MonotonicInAlpha ==
    hsPc = "returned" =>
        \A V \in keysOf(vectorResults) \ keysOf(keywordResults),
           K \in keysOf(keywordResults) \ keysOf(vectorResults) :
            rankedAhead(hsResult, V, K) =>
                \A a2 \in hsAlpha..AlphaDen :
                    rankedAhead(reciprocalRankFusion(vectorResults, keywordResults,
                                                     a2, hsLimit), V, K)

\* C4 witness: V ahead of K, both returned, at an alpha below 1, beside a
\* candidate found in both lists
C4_Witness ==
    /\ hsPc = "returned"
    /\ hsAlpha < AlphaDen
    /\ keysOf(vectorResults) \cap keysOf(keywordResults) # {}
    /\ \E V \in keysOf(vectorResults) \ keysOf(keywordResults),
          K \in keysOf(keywordResults) \ keysOf(vectorResults) :
            /\ keyPos(hsResult, K) > 0
            /\ rankedAhead(hsResult, V, K)

\* C5 (the claim as stated): at alpha = 0 the returned list is the same for
\* every other vector list, and at alpha = 1 for every other keyword list
C5_DegenerateAlpha ==
    hsPc = "returned" =>
        /\ hsAlpha = 0 =>
              \A hits \in HitLists(Min(hsLimit * 2, MaxHits)) :
                  reciprocalRankFusion(vectorSearch(hits), keywordResults, 0, hsLimit)
                      = hsResult
        /\ hsAlpha = AlphaDen =>
              \A points \in HitLists(Min(hsLimit * 2, MaxHits)) :
                  reciprocalRankFusion(vectorResults, keywordSearch(hsQuery, points),
                                       AlphaDen, hsLimit)
                      = hsResult

\* the two forEach loops go through the vector list, then the keyword list
forEachOrder == vectorResults \o keywordResults

\* the place in that order where the loops first meet the fingerprint key,
\* which is where fusedScores.set inserts its entry
firstSeen(key) ==
    CHOOSE i \in 1..Len(forEachOrder) :
        /\ substring100(forEachOrder[i].document) = key
        /\ \A j \in 1..(i - 1) : substring100(forEachOrder[j].document) # key

\* C29: no two returned results share a fingerprint (the first 100 characters of
\* the chunk text), and each returned result is the first occurrence of its
\* fingerprint, vector list before keyword list, with its document and its score
\* components, under the fused score
C29_OnePerFingerprint ==
    hsPc = "returned" =>
        /\ \A i, j \in 1..Len(hsResult) :
               i # j => substring100(hsResult[i].document)
                            # substring100(hsResult[j].document)
        /\ \A i \in 1..Len(hsResult) :
               LET first == forEachOrder[firstSeen(substring100(hsResult[i].document))]
               IN  hsResult[i] = [first EXCEPT !.score = hsResult[i].score]

\* C29 witness: a returned result whose fingerprint is met twice in the vector
\* list, under two different chunk texts, and again in the keyword list
C29_Witness ==
    /\ hsPc = "returned"
    /\ Len(vectorResults) = 2
    /\ Len(keywordResults) >= 1
    /\ substring100(vectorResults[1].document) = substring100(vectorResults[2].document)
    /\ vectorResults[1].document # vectorResults[2].document
    /\ substring100(vectorResults[1].document) \in keysOf(keywordResults)
    /\ Len(hsResult) >= 1
    /\ hsResult[1].document = vectorResults[1].document
    /\ hsResult[1].vectorScore = vectorResults[1].vectorScore

\* C30: of two fused candidates with equal scores the one inserted first is ranked
\* first; so at alpha = 0.5 a hit found only in the vector list, once, at rank r
\* precedes a hit found only in the keyword list, once, at the same rank r
C30_TieByInsertion ==
    hsPc = "returned" =>
        /\ \A i, j \in 1..Len(hsResult) :
               (i < j /\ hsResult[i].score = hsResult[j].score) =>
                   firstSeen(substring100(hsResult[i].document))
                       < firstSeen(substring100(hsResult[j].document))
        /\ 2 * hsAlpha = AlphaDen =>
               \A r \in 1..Min(Len(vectorResults), Len(keywordResults)) :
                   LET V == substring100(vectorResults[r].document)
                       K == substring100(keywordResults[r].document)
                   IN  (/\ V \notin keysOf(keywordResults)
                        /\ K \notin keysOf(vectorResults)
                        /\ \A h \in 1..Len(vectorResults) :
                               substring100(vectorResults[h].document) = V => h = r
                        /\ \A h \in 1..Len(keywordResults) :
                               substring100(keywordResults[h].document) = K => h = r
                        /\ keyPos(hsResult, K) > 0)
                       => rankedAhead(hsResult, V, K)

\* C30 witness: at alpha = 0.5 a vector-only hit and a keyword-only hit of the
\* same rank, returned next to each other with equal scores, the vector hit first
C30_Witness ==
    /\ hsPc = "returned"
    /\ 2 * hsAlpha = AlphaDen
    /\ Len(vectorResults) = 2
    /\ Len(keywordResults) = 1
    /\ keysOf(vectorResults) \cap keysOf(keywordResults) = {}
    /\ Len(hsResult) = 3
    /\ hsResult[1].score = hsResult[2].score
    /\ hsResult[1].document = vectorResults[1].document
    /\ hsResult[2].document = keywordResults[1].document
    /\ hsResult[3].document = vectorResults[2].document

----------------------------------------------------------------------------
(* Texts: a string is the sequence of its UTF-16 code units *)

\* "api api"
textApiApi == <<97, 112, 105, 32, 97, 112, 105>>

\* "Db"
textDb == <<68, 98>>

\* "api"
textApi == <<97, 112, 105>>

\* "db api"
textDbApi == <<100, 98, 32, 97, 112, 105>>

\* String.prototype.toLowerCase, on the letters A-Z
toLowerCase(text) ==
    [i \in 1..Len(text) |-> IF text[i] \in 65..90 THEN text[i] + 32 ELSE text[i]]

\* String.prototype.split(' ')
RECURSIVE splitSpace(_)
splitSpace(text) ==
    IF \A i \in 1..Len(text) : text[i] # 32 THEN <<text>>
    ELSE LET i == CHOOSE j \in 1..Len(text) :
                      text[j] = 32 /\ \A h \in 1..(j - 1) : text[h] # 32
         IN  <<SubSeq(text, 1, i - 1)>> \o splitSpace(SubSeq(text, i + 1, Len(text)))

\* content.match(new RegExp(word, 'g')): the number of matches from position i on,
\* for a word of letters (the empty pattern matches at every position)
RECURSIVE matchCount(_, _, _)
matchCount(content, word, i) ==
    IF word = <<>> THEN Len(content) + 1
    ELSE IF i + Len(word) - 1 > Len(content) THEN 0
    ELSE IF SubSeq(content, i, i + Len(word) - 1) = word
         THEN 1 + matchCount(content, word, i + Len(word))
         ELSE matchCount(content, word, i + 1)

\* the sum of f over the elements of a sequence
RECURSIVE sumSeq(_)
sumSeq(numbers) ==
    IF numbers = <<>> THEN 0 ELSE Head(numbers) + sumSeq(Tail(numbers))

----------------------------------------------------------------------------
(* Reranker and MockReranker *)
(* A score the reranker does not compute is opaque: [retrieval |-> i] is   *)
(* the score the store gave its i-th result, [relevance |-> j] the         *)
(* relevanceScore of the j-th entry of the provider's response.  A score   *)
(* the MockReranker computes is the rational [num |-> n, den |-> d].       *)

\* the largest number of results handed to the reranker
MaxResults == 4

\* the largest topK handed to the reranker directly
MaxTopK == 3

\* the chunk texts of the results handed to the reranker
PageContents == { textApiApi, textDb }

\* the queries handed to the reranker
RerankQueries == { textApi, textDbApi }

\* the result lists of at most n results the retrieval stage may hand over
RECURSIVE ResultLists(_)
ResultLists(n) ==
    IF n = 0 THEN { <<>> }
    ELSE ResultLists(n - 1) \cup
         { Append(s, [document |-> [pageContent |-> c], score |-> [retrieval |-> n]]) :
              s \in { t \in ResultLists(n - 1) : Len(t) = n - 1 }, c \in PageContents }

\* a topN that asks the provider for every document
topNAll(topK, length) == length

\* topN: Math.min(topK, results.length)
topN(topK, length) == Min(topK, length)

\* the responses of a provider that honours topN: at most n entries, each the
\* index of a document (0-based in the code, 1-based here), none twice
RECURSIVE rerankResponses(_, _)
rerankResponses(length, n) ==
    IF n = 0 THEN { <<>> }
    ELSE LET shorter == rerankResponses(length, n - 1)
         IN  shorter \cup
             UNION { { Append(r, idx) : idx \in (1..length) \ { r[i] : i \in 1..Len(r) } } :
                        r \in { t \in shorter : Len(t) = n - 1 } }

\* for (const result of rerankResponse.results) rerankedResults.push({...})
mapReranked(results, response) ==
    [j \in 1..Len(response) |->
        [results[response[j]] EXCEPT !.score = [relevance |-> j]]]

\* MockReranker: Math.min(0.99, termFrequency / (queryWords.length * 5))
mockRerankScore(query, pageContent) ==
    LET queryWords == splitSpace(toLowerCase(query))
        content == toLowerCase(pageContent)
        termFrequency ==
            sumSeq([w \in 1..Len(queryWords) |-> matchCount(content, queryWords[w], 1)])
    IN  IF termFrequency * 100 <= 99 * (Len(queryWords) * 5)
        THEN [num |-> termFrequency, den |-> Len(queryWords) * 5]
        ELSE [num |-> 99, den |-> 100]

\* a comparator on rational scores that sorts ascending
compareRationalAscending(a, b) == a.score.num * b.score.den - b.score.num * a.score.den

\* the comparator (a, b) => b.score - a.score on rational scores, times both dens
compareRational(a, b) == b.score.num * a.score.den - a.score.num * b.score.den

RECURSIVE sortedInsertRational(_, _)
sortedInsertRational(sorted, x) ==
    IF sorted = <<>> THEN <<x>>
    ELSE IF compareRational(Head(sorted), x) <= 0
         THEN <<Head(sorted)>> \o sortedInsertRational(Tail(sorted), x)
         ELSE <<x>> \o sorted

\* Array.prototype.sort (stable) with that comparator
RECURSIVE sortByRational(_)
sortByRational(items) ==
    IF items = <<>> THEN <<>>
    ELSE sortedInsertRational(sortByRational(SubSeq(items, 1, Len(items) - 1)),
                              items[Len(items)])

\* MockReranker.rerank
MockReranker_rerank(query, results, topK) ==
    LET reranked == [i \in 1..Len(results) |->
                        [results[i] EXCEPT
                            !.score = mockRerankScore(query, results[i].document.pageContent)]]
    IN  slice(sortByRational(reranked), topK)

\* MockReranker.rerankWithMetadata: return this.rerank(query, results, topK)
MockReranker_rerankWithMetadata ==
    /\ rrMock
    /\ rrPc = "rerankWithMetadata"
    /\ rrPc' = "rerank"
    /\ UNCHANGED <<rrMock, rrQuery, rrResults, rrTopK, rrReturn, cohereCalls, cohereFailures>>
    /\ UNCHANGED <<hsVars, plVars>>
    /\ UNCHANGED <<cfVars, mkVars>>

MockReranker_rerank_return ==
    /\ rrMock
    /\ rrPc = "rerank"
    /\ rrReturn' = MockReranker_rerank(rrQuery, rrResults, rrTopK)
    /\ rrPc' = "returned"
    /\ UNCHANGED <<rrMock, rrQuery, rrResults, rrTopK, cohereCalls, cohereFailures>>
    /\ UNCHANGED <<hsVars, plVars>>
    /\ UNCHANGED <<cfVars, mkVars>>

\* Reranker.rerankWithMetadata, line 128: if (results.length === 0) return []
Reranker_rerankWithMetadata_empty ==
    /\ ~rrMock
    /\ rrPc = "rerankWithMetadata"
    /\ Len(rrResults) = 0
    /\ rrReturn' = <<>>
    /\ rrPc' = "returned"
    /\ UNCHANGED <<rrMock, rrQuery, rrResults, rrTopK, cohereCalls, cohereFailures>>
    /\ UNCHANGED <<hsVars, plVars>>
    /\ UNCHANGED <<cfVars, mkVars>>

\* Reranker.rerankWithMetadata, lines 138-156: the provider answers
Reranker_rerankWithMetadata_reranked ==
    /\ ~rrMock
    /\ rrPc = "rerankWithMetadata"
    /\ Len(rrResults) # 0
    /\ \E response \in rerankResponses(Len(rrResults), topN(rrTopK, Len(rrResults))) :
           rrReturn' = mapReranked(rrResults, response)
    /\ cohereCalls' = cohereCalls + 1
    /\ rrPc' = "returned"
    /\ UNCHANGED <<rrMock, rrQuery, rrResults, rrTopK, cohereFailures>>
    /\ UNCHANGED <<hsVars, plVars>>
    /\ UNCHANGED <<cfVars, mkVars>>

\* Reranker.rerankWithMetadata, lines 157-160: the provider throws;
\* return this.rerank(query, results, topK)
Reranker_rerankWithMetadata_catch ==
    /\ ~rrMock
    /\ rrPc = "rerankWithMetadata"
    /\ Len(rrResults) # 0
    /\ cohereCalls' = cohereCalls + 1
    /\ cohereFailures' = cohereFailures + 1
    /\ rrPc' = "rerank"
    /\ UNCHANGED <<rrMock, rrQuery, rrResults, rrTopK, rrReturn>>
    /\ UNCHANGED <<hsVars, plVars>>
    /\ UNCHANGED <<cfVars, mkVars>>

\* Reranker.rerank, line 92: if (results.length === 0) return []
Reranker_rerank_empty ==
    /\ ~rrMock
    /\ rrPc = "rerank"
    /\ Len(rrResults) = 0
    /\ rrReturn' = <<>>
    /\ rrPc' = "returned"
    /\ UNCHANGED <<rrMock, rrQuery, rrResults, rrTopK, cohereCalls, cohereFailures>>
    /\ UNCHANGED <<hsVars, plVars>>
    /\ UNCHANGED <<cfVars, mkVars>>

\* Reranker.rerank, lines 97-116: the provider answers
Reranker_rerank_reranked ==
    /\ ~rrMock
    /\ rrPc = "rerank"
    /\ Len(rrResults) # 0
    /\ \E response \in rerankResponses(Len(rrResults), topN(rrTopK, Len(rrResults))) :
           rrReturn' = mapReranked(rrResults, response)
    /\ cohereCalls' = cohereCalls + 1
    /\ rrPc' = "returned"
    /\ UNCHANGED <<rrMock, rrQuery, rrResults, rrTopK, cohereFailures>>
    /\ UNCHANGED <<hsVars, plVars>>
    /\ UNCHANGED <<cfVars, mkVars>>

\* Reranker.rerank, lines 117-120: the provider throws; return results.slice(0, topK)
Reranker_rerank_catch ==
    /\ ~rrMock
    /\ rrPc = "rerank"
    /\ Len(rrResults) # 0
    /\ cohereCalls' = cohereCalls + 1
    /\ cohereFailures' = cohereFailures + 1
    /\ rrReturn' = slice(rrResults, rrTopK)
    /\ rrPc' = "returned"
    /\ UNCHANGED <<rrMock, rrQuery, rrResults, rrTopK>>
    /\ UNCHANGED <<hsVars, plVars>>
    /\ UNCHANGED <<cfVars, mkVars>>

\* the steps of a reranker call
RerankerStep ==
    \/ MockReranker_rerankWithMetadata
    \/ MockReranker_rerank_return
    \/ Reranker_rerankWithMetadata_empty
    \/ Reranker_rerankWithMetadata_reranked
    \/ Reranker_rerankWithMetadata_catch
    \/ Reranker_rerank_empty
    \/ Reranker_rerank_reranked
    \/ Reranker_rerank_catch

\* no hybridSearch call
hsIdle ==
    /\ hsQuery = <<"">>
    /\ hsLimit = 0
    /\ hsAlpha = 0
    /\ hsPc = "idle"
    /\ vectorResults = <<>>
    /\ keywordResults = <<>>
    /\ hsResult = <<>>

\* a call rerank(query, results, topK) or rerankWithMetadata(query, results, topK)
\* of either reranker
InitRerank ==
    /\ hsIdle
    /\ plIdle
    /\ rrMock \in BOOLEAN
    /\ rrQuery \in RerankQueries
    /\ rrResults \in ResultLists(MaxResults)
    /\ rrTopK \in 0..MaxTopK
    /\ rrPc \in {"rerankWithMetadata", "rerank"}
    /\ rrReturn = <<>>
    /\ cohereCalls = 0
    /\ cohereFailures = 0
    /\ cfIdle
    /\ mkIdle

NextRerank == RerankerStep

SpecRerank == InitRerank /\ [][NextRerank]_vars

\* C8: rerank and rerankWithMetadata, mock or live, return at most
\* min(topK, len(results)) results, and none for an empty candidate list
C8_RerankLength ==
    rrPc = "returned" =>
        /\ Len(rrReturn) <= Min(rrTopK, Len(rrResults))
        /\ rrResults = <<>> => rrReturn = <<>>

\* C8 witness: the provider answered the plain retry of rerankWithMetadata with
\* a full page of topN < len(results) results
C8_Witness ==
    /\ rrPc = "returned"
    /\ ~rrMock
    /\ cohereCalls = 2
    /\ cohereFailures = 1
    /\ rrTopK >= 1
    /\ Len(rrResults) > rrTopK
    /\ Len(rrReturn) = rrTopK

----------------------------------------------------------------------------
(* MockVectorStore and MockLLM *)

\* content.includes(word)
includes(content, word) ==
    \E i \in 1..(Len(content) + 1) :
        /\ i + Len(word) - 1 <= Len(content)
        /\ SubSeq(content, i, i + Len(word) - 1) = word

\* the score of a document: the share of the query's words its content includes
mockMatchScore(queryWords, pageContent) ==
    LET content == toLowerCase(pageContent)
    IN  [num |-> sumSeq([w \in 1..Len(queryWords) |->
                            IF includes(content, queryWords[w]) THEN 1 ELSE 0]),
         den |-> Len(queryWords)]

\* MockVectorStore.hybridSearch(query, limit) on a store holding `documents`
MockVectorStore_hybridSearch(documents, query, limit) ==
    IF Len(documents) = 0 THEN <<>>
    ELSE LET queryWords == splitSpace(toLowerCase(query))
             scored == [i \in 1..Len(documents) |->
                          [document |-> documents[i],
                           score |-> mockMatchScore(queryWords, documents[i].pageContent)]]
             matching == SelectSeq(scored, LAMBDA r : r.score.num > 0)
             top == slice(sortByRational(matching), limit)
             results == [i \in 1..Len(top) |->
                           [document |-> top[i].document,
                            score |-> top[i].score,
                            vectorScore |-> top[i].score,
                            keywordScore |-> top[i].score]]
         IN  IF Len(results) = 0
             THEN [i \in 1..Min(3, Len(documents)) |->
                      [document |-> documents[i],
                       score |-> [num |-> 5 - (i - 1), den |-> 10],
                       vectorScore |-> [num |-> 5 - (i - 1), den |-> 10]]]
             ELSE results

\* one round of MockLLM.hashCode: hash = ((hash << 5) - hash) + charCode, then
\* hash & hash: 31 * hash + charCode wrapped to a signed 32-bit integer, computed
\* on the two 16-bit halves of hash
hashStep(hash, charCode) ==
    LET lo == hash % 65536
        hi == (hash - lo) \div 65536
        lo31 == lo * 31 + charCode
        hi31 == hi * 31 + (lo31 \div 65536)
    IN  (((hi31 + 32768) % 65536) - 32768) * 65536 + (lo31 % 65536)

\* MockLLM.hashCode(str)
RECURSIVE hashCode(_)
hashCode(str) ==
    IF str = <<>> THEN 0
    ELSE hashStep(hashCode(SubSeq(str, 1, Len(str) - 1)), str[Len(str)])

\* an absolute value taken in 32 bits: |-2^31| stays -2^31, and % keeps its sign
responseIndexInt32(q) ==
    LET hash == hashCode(q)
    IN  IF hash = -2147483647 - 1 THEN -2
        ELSE IF hash >= 0 THEN hash % 3 ELSE (3 - (hash % 3)) % 3

\* Math.abs(hash) % responses.length, taken without forming |-2^31|
responseIndex(q) ==
    LET hash == hashCode(q)
    IN  IF hash >= 0 THEN hash % 3 ELSE (3 - (hash % 3)) % 3

\* the three canned responses, each cut to its opening words around "${question}":
\* 'answer to "Q": A', 'question about "Q": B', 'Regarding "Q": C'
responses(q) ==
    << <<97, 110, 115, 119, 101, 114, 32, 116, 111, 32>>
           \o <<34>> \o q \o <<34, 58, 32, 65>>,
       <<113, 117, 101, 115, 116, 105, 111, 110, 32, 97, 98, 111, 117, 116, 32>>
           \o <<34>> \o q \o <<34, 58, 32, 66>>,
       <<82, 101, 103, 97, 114, 100, 105, 110, 103, 32>>
           \o <<34>> \o q \o <<34, 58, 32, 67>> >>

\* MockLLM.generateAnswer(question, context): responses[hash % responses.length],
\* which is undefined (here <<-1>>, no text) for an index outside the array
MockLLM_generateAnswer(q, context) ==
    IF responseIndex(q) \in 0..2 THEN responses(q)[responseIndex(q) + 1] ELSE <<-1>>

\* a stream that yields the words without the space that followed them
streamAnswerWords(q, context) ==
    splitSpace(MockLLM_generateAnswer(q, context))

\* the fragments MockLLM.streamAnswer yields: words[i] + (i < words.length - 1 ? ' ' : '')
MockLLM_streamAnswer(q, context) ==
    LET words == splitSpace(MockLLM_generateAnswer(q, context))
    IN  [i \in 1..Len(words) |->
            IF i < Len(words) THEN Append(words[i], 32) ELSE words[i]]

----------------------------------------------------------------------------
(* RAGPipeline *)

\* config.rag.topK
topK == 10

\* config.rag.rerankTopK
rerankTopK == 3

\* the most chunks a live LLM stream delivers
MaxChunks == 2

\* the questions asked: "" and "api"
Questions == { <<>>, textApi }

\* "I couldn't find any relevant information to answer your question."
NoInformationAnswer ==
    <<73, 32, 99, 111, 117, 108, 100, 110, 39, 116, 32, 102, 105, 110, 100, 32, 97, 110, 121,
    32, 114, 101, 108, 101, 118, 97, 110, 116, 32, 105, 110, 102, 111, 114, 109, 97, 116, 105, 111, 110,
    32, 116, 111, 32, 97, 110, 115, 119, 101, 114, 32, 121, 111, 117, 114, 32, 113, 117, 101, 115, 116, 105, 111, 110, 46>>

\* the text of an answer of the live LLM: "LLM"
liveAnswer == <<76, 76, 77>>

\* the text of a non-empty chunk of the live LLM stream: "t"
liveChunk == <<116>>

\* the advances of a clock that ticks between two readings: none, or a millisecond
Ticks == {0, 1}

\* const startTime = Date.now(): the clock is counted from this reading
startTime == 0

\* a difference taken the wrong way round
elapsedBackwards(since, reading) == since - reading

\* Date.now() - retrievalStart, and the like
elapsed(since, reading) == reading - since

\* vectorStore.hybridSearch(question, config.rag.topK): the MockVectorStore's
\* answer, or any answer or failure of the HybridVectorStore
retrievalOutcomes(mock, documents, q) ==
    IF mock
    THEN { [ok |-> TRUE, results |-> MockVectorStore_hybridSearch(documents, q, topK)] }
    ELSE { [ok |-> TRUE, results |-> l] : l \in ResultLists(Min(topK, MaxResults)) }
         \cup { [ok |-> FALSE, results |-> <<>>] }

\* the guard of the reranking stage: options.useReranking && searchResults.length > 0
rerankingRuns(reranking, results) == reranking /\ Len(results) > 0

\* a generateAnswer that has no early return
skipsGenerationNever(results) == FALSE

\* generateAnswer: if (searchResults.length === 0) return "I couldn't find ..."
skipsGeneration(results) == Len(results) = 0

\* the context: one entry "[index] source:\n content" per result, in order
contextOf(results) ==
    [i \in 1..Len(results) |-> [index |-> i, content |-> results[i].document.pageContent]]

\* generateAnswer(question, searchResults): the fixed text without a call, the
\* MockLLM's answer, or any answer or failure of the live chain
generateAnswer(mock, q, results) ==
    IF skipsGeneration(results)
    THEN { [ok |-> TRUE, called |-> FALSE, text |-> NoInformationAnswer] }
    ELSE IF mock
    THEN { [ok |-> TRUE, called |-> TRUE,
            text |-> MockLLM_generateAnswer(q, contextOf(results))] }
    ELSE { [ok |-> TRUE, called |-> TRUE, text |-> liveAnswer],
           [ok |-> FALSE, called |-> TRUE, text |-> <<>>] }

\* sources: searchResults.map(result => ({content, metadata, relevanceScore}))
sourcesOf(results) ==
    [i \in 1..Len(results) |->
        [content |-> results[i].document.pageContent, relevanceScore |-> results[i].score]]

\* the call this.reranker.rerankWithMetadata(question, searchResults, config.rag.rerankTopK)
callReranker ==
    /\ rrMock' = isMockMode
    /\ rrQuery' = question
    /\ rrResults' = searchResults
    /\ rrTopK' = rerankTopK
    /\ rrPc' = "rerankWithMetadata"
    /\ rrReturn' = <<>>
    /\ cohereCalls' = 0
    /\ cohereFailures' = 0
    /\ rerankerCalls' = rerankerCalls + 1

\* query, lines 76-85: retrieval (both branches of useHybridSearch make the same call)
query_retrieve ==
    /\ plOp = "query"
    /\ plPc = "called"
    /\ \E o \in retrievalOutcomes(isMockMode, msDocuments, question), d1, d2 \in clockTicks :
           LET retrievalStart == now + d1
               returned == retrievalStart + d2
           IN  /\ retrieved' = o.results
               /\ searchResults' = o.results
               /\ plPc' = IF o.ok THEN "retrieved" ELSE "rejected"
               /\ plError' = IF o.ok THEN "" ELSE "retrieval"
               /\ now' = IF o.ok THEN returned ELSE retrievalStart
               /\ metrics' = IF o.ok
                             THEN [metrics EXCEPT
                                      !.retrievalTime = elapsed(retrievalStart, returned)]
                             ELSE metrics
    /\ hybridSearchCalls' = hybridSearchCalls + 1
    /\ UNCHANGED <<clockTicks, isMockMode, msDocuments, plOp, question, useReranking, useHybridSearch,
                   ragResponse, events, rerankerCalls, llmContexts, llmStream, llmRead>>
    /\ UNCHANGED <<hsVars, rrVars>>
    /\ UNCHANGED <<pulls, rerankingStart>>
    /\ UNCHANGED <<cfVars, mkVars>>

\* query, lines 88-90: the reranking stage is entered or skipped
query_rerank ==
    /\ plOp = "query"
    /\ plPc = "retrieved"
    /\ \E d1, d2 \in clockTicks :
           /\ rerankingStart' = now + d1
           /\ IF rerankingRuns(useReranking, searchResults)
              THEN /\ callReranker
                   /\ plPc' = "reranking"
                   /\ now' = now + d1
                   /\ metrics' = metrics
              ELSE /\ plPc' = "reranked"
                   /\ now' = now + d1 + d2
                   /\ metrics' = [metrics EXCEPT
                                     !.rerankingTime = elapsed(now + d1, now + d1 + d2)]
                   /\ UNCHANGED <<rrVars, rerankerCalls>>
    /\ UNCHANGED <<clockTicks, isMockMode, msDocuments, plOp, question, useReranking, useHybridSearch,
                   plError, retrieved, searchResults, ragResponse, events, hybridSearchCalls,
                   llmContexts, llmStream, llmRead>>
    /\ UNCHANGED hsVars
    /\ UNCHANGED pulls
    /\ UNCHANGED <<cfVars, mkVars>>

\* query, lines 90-96: the reranker has returned
query_reranked ==
    /\ plOp = "query"
    /\ plPc = "reranking"
    /\ rrPc = "returned"
    /\ searchResults' = rrReturn
    /\ plPc' = "reranked"
    /\ \E d \in clockTicks :
           /\ now' = now + d
           /\ metrics' = [metrics EXCEPT !.rerankingTime = elapsed(rerankingStart, now + d)]
    /\ UNCHANGED <<clockTicks, isMockMode, msDocuments, plOp, question, useReranking, useHybridSearch,
                   plError, retrieved, ragResponse, events, hybridSearchCalls, rerankerCalls,
                   llmContexts, llmStream, llmRead>>
    /\ UNCHANGED <<hsVars, rrVars>>
    /\ UNCHANGED <<pulls, rerankingStart>>
    /\ UNCHANGED <<cfVars, mkVars>>

\* a query() that calls the generator a second time when its call fails
query_generate_retry ==
    /\ plOp = "query"
    /\ plPc = "reranked"
    /\ \E o \in generateAnswer(isMockMode, question, searchResults) :
           /\ llmContexts' = IF ~o.called THEN llmContexts
                             ELSE IF o.ok THEN Append(llmContexts, contextOf(searchResults))
                             ELSE llmContexts \o <<contextOf(searchResults),
                                                   contextOf(searchResults)>>
           /\ ragResponse' = IF o.called /\ ~o.ok
                             THEN <<[answer |-> liveAnswer,
                                     sources |-> sourcesOf(searchResults),
                                     metrics |-> metrics]>>
                             ELSE <<[answer |-> o.text, sources |-> sourcesOf(searchResults),
                                     metrics |-> metrics]>>
           /\ plPc' = "resolved"
           /\ plError' = ""
    /\ UNCHANGED <<clockTicks, isMockMode, msDocuments, plOp, question, useReranking, useHybridSearch,
                   retrieved, searchResults, events, hybridSearchCalls, rerankerCalls,
                   llmStream, llmRead>>
    /\ UNCHANGED <<hsVars, rrVars>>
    /\ UNCHANGED <<pulls, clockVars>>
    /\ UNCHANGED <<cfVars, mkVars>>

\* query, lines 99-113: generation and the returned RAGResponse
query_generate ==
    /\ plOp = "query"
    /\ plPc = "reranked"
    /\ \E o \in generateAnswer(isMockMode, question, searchResults), d1, d2, d3 \in clockTicks :
           LET generationStart == now + d1
               returned == generationStart + d2
               finished == returned + d3
               timed == [metrics EXCEPT
                            !.generationTime = elapsed(generationStart, returned),
                            !.totalTime = elapsed(startTime, finished)]
           IN  /\ llmContexts' = IF o.called
                                 THEN Append(llmContexts, contextOf(searchResults))
                                 ELSE llmContexts
               /\ ragResponse' = IF o.ok
                                 THEN <<[answer |-> o.text,
                                         sources |-> sourcesOf(searchResults),
                                         metrics |-> timed]>>
                                 ELSE <<>>
               /\ plPc' = IF o.ok THEN "resolved" ELSE "rejected"
               /\ plError' = IF o.ok THEN "" ELSE "generation"
               /\ now' = IF o.ok THEN finished ELSE generationStart
               /\ metrics' = IF o.ok THEN timed ELSE metrics
    /\ UNCHANGED <<clockTicks, isMockMode, msDocuments, plOp, question, useReranking, useHybridSearch,
                   retrieved, searchResults, events, hybridSearchCalls, rerankerCalls,
                   llmStream, llmRead>>
    /\ UNCHANGED <<hsVars, rrVars>>
    /\ UNCHANGED <<pulls, rerankingStart>>
    /\ UNCHANGED <<cfVars, mkVars>>

\* what one pull of the pipeline's for-await loop gets from the LLM stream: the
\* MockLLM's next fragment or its end; from the live stream, after any number of
\* chunks with empty text, a chunk with text, the end, or a failure
streamOutcomes(mock, fragments, read) ==
    IF mock
    THEN IF fragments = <<>>
         THEN { [kind |-> "end", chunk |-> <<>>, rest |-> <<>>, read |-> read] }
         ELSE { [kind |-> "chunk", chunk |-> Head(fragments), rest |-> Tail(fragments),
                 read |-> read] }
    ELSE { [kind |-> kd, chunk |-> <<>>, rest |-> <<>>, read |-> read + skipped] :
              kd \in {"end", "throw"}, skipped \in 0..(MaxChunks - read) }
         \cup
         { [kind |-> "chunk", chunk |-> liveChunk, rest |-> <<>>, read |-> read + skipped + 1] :
              skipped \in 0..(MaxChunks - read - 1) }

\* a streamQuery that ends without its {type: 'complete'} event
streamYieldNoComplete(o) ==
    /\ llmStream' = o.rest
    /\ llmRead' = o.read
    /\ events' = IF o.kind = "chunk"
                 THEN Append(events, [type |-> "generation", chunk |-> o.chunk])
                 ELSE events
    /\ plPc' = IF o.kind = "chunk" THEN "yieldedChunk"
               ELSE IF o.kind = "end" THEN "yieldedComplete"
               ELSE "rejected"
    /\ plError' = IF o.kind = "throw" THEN "generation" ELSE ""

\* a streamQuery that catches the generator's failure and yields {type: 'complete'}
streamYieldCompleteOnThrow(o) ==
    /\ llmStream' = o.rest
    /\ llmRead' = o.read
    /\ events' = IF o.kind = "chunk"
                 THEN Append(events, [type |-> "generation", chunk |-> o.chunk])
                 ELSE Append(events, [type |-> "complete",
                                      sources |-> sourcesOf(searchResults)])
    /\ plPc' = IF o.kind = "chunk" THEN "yieldedChunk"
               ELSE IF o.kind = "end" THEN "yieldedComplete"
               ELSE "rejected"
    /\ plError' = IF o.kind = "throw" THEN "generation" ELSE ""

\* the event a pull of the loop yields, and where it leaves streamQuery
streamYield(o) ==
    /\ llmStream' = o.rest
    /\ llmRead' = o.read
    /\ events' = IF o.kind = "chunk"
                 THEN Append(events, [type |-> "generation", chunk |-> o.chunk])
                 ELSE IF o.kind = "end"
                 THEN Append(events, [type |-> "complete",
                                      sources |-> sourcesOf(searchResults)])
                 ELSE events
    /\ plPc' = IF o.kind = "chunk" THEN "yieldedChunk"
               ELSE IF o.kind = "end" THEN "yieldedComplete"
               ELSE "rejected"
    /\ plError' = IF o.kind = "throw" THEN "generation" ELSE ""

\* streamQuery, line 185: the first pull yields {type: 'retrieval'}
streamQuery_start ==
    /\ plOp = "streamQuery"
    /\ plPc = "called"
    /\ events' = Append(events, [type |-> "retrieval"])
    /\ plPc' = "yieldedRetrieval"
    /\ UNCHANGED <<clockTicks, isMockMode, msDocuments, plOp, question, useReranking, useHybridSearch,
                   plError, retrieved, searchResults, ragResponse, hybridSearchCalls,
                   rerankerCalls, llmContexts, llmStream, llmRead>>
    /\ UNCHANGED <<hsVars, rrVars>>
    /\ pulls' = pulls + 1
    /\ UNCHANGED clockVars
    /\ UNCHANGED <<cfVars, mkVars>>

\* streamQuery, lines 187-194: retrieval, then {type: 'retrieval', data: {resultCount}}
streamQuery_retrieve ==
    /\ plOp = "streamQuery"
    /\ plPc = "yieldedRetrieval"
    /\ \E o \in retrievalOutcomes(isMockMode, msDocuments, question) :
           /\ retrieved' = o.results
           /\ searchResults' = o.results
           /\ events' = IF o.ok
                        THEN Append(events, [type |-> "retrieval",
                                             resultCount |-> Len(o.results)])
                        ELSE events
           /\ plPc' = IF o.ok THEN "yieldedRetrievalCount" ELSE "rejected"
           /\ plError' = IF o.ok THEN "" ELSE "retrieval"
    /\ hybridSearchCalls' = hybridSearchCalls + 1
    /\ UNCHANGED <<clockTicks, isMockMode, msDocuments, plOp, question, useReranking, useHybridSearch,
                   ragResponse, rerankerCalls, llmContexts, llmStream, llmRead>>
    /\ UNCHANGED <<hsVars, rrVars>>
    /\ pulls' = pulls + 1
    /\ UNCHANGED clockVars
    /\ UNCHANGED <<cfVars, mkVars>>

\* a streamQuery that starts the reranker call before it yields {type: 'reranking'}
streamQuery_stage_eager ==
    /\ plOp = "streamQuery"
    /\ plPc \in {"yieldedRetrievalCount", "yieldedRerankingCount"}
    /\ IF plPc = "yieldedRetrievalCount" /\ rerankingRuns(useReranking, searchResults)
       THEN /\ events' = Append(events, [type |-> "reranking"])
            /\ callReranker
            /\ plPc' = "reranking"
       ELSE /\ events' = Append(events, [type |-> "generation"])
            /\ plPc' = "yieldedGeneration"
            /\ UNCHANGED <<rrVars, rerankerCalls>>
    /\ UNCHANGED <<clockTicks, isMockMode, msDocuments, plOp, question, useReranking,
                   useHybridSearch, plError, retrieved, searchResults, ragResponse,
                   hybridSearchCalls, llmContexts, llmStream, llmRead>>
    /\ UNCHANGED hsVars
    /\ pulls' = pulls + 1
    /\ UNCHANGED clockVars
    /\ UNCHANGED <<cfVars, mkVars>>

\* streamQuery, lines 197-198 and 208: {type: 'reranking'} if the reranking stage
\* runs, else {type: 'generation'}; and line 208 after the reranking stage
streamQuery_stage ==
    /\ plOp = "streamQuery"
    /\ plPc \in {"yieldedRetrievalCount", "yieldedRerankingCount"}
    /\ IF plPc = "yieldedRetrievalCount" /\ rerankingRuns(useReranking, searchResults)
       THEN /\ events' = Append(events, [type |-> "reranking"])
            /\ plPc' = "yieldedReranking"
       ELSE /\ events' = Append(events, [type |-> "generation"])
            /\ plPc' = "yieldedGeneration"
    /\ UNCHANGED <<clockTicks, isMockMode, msDocuments, plOp, question, useReranking, useHybridSearch,
                   plError, retrieved, searchResults, ragResponse, hybridSearchCalls,
                   rerankerCalls, llmContexts, llmStream, llmRead>>
    /\ UNCHANGED <<hsVars, rrVars>>
    /\ pulls' = pulls + 1
    /\ UNCHANGED clockVars
    /\ UNCHANGED <<cfVars, mkVars>>

\* streamQuery, line 199: the reranker is called
streamQuery_rerank ==
    /\ plOp = "streamQuery"
    /\ plPc = "yieldedReranking"
    /\ callReranker
    /\ plPc' = "reranking"
    /\ UNCHANGED <<clockTicks, isMockMode, msDocuments, plOp, question, useReranking, useHybridSearch,
                   plError, retrieved, searchResults, ragResponse, events, hybridSearchCalls,
                   llmContexts, llmStream, llmRead>>
    /\ UNCHANGED hsVars
    /\ pulls' = pulls + 1
    /\ UNCHANGED clockVars
    /\ UNCHANGED <<cfVars, mkVars>>

\* streamQuery, lines 199-204: the reranker has returned;
\* {type: 'reranking', data: {resultCount}}
streamQuery_reranked ==
    /\ plOp = "streamQuery"
    /\ plPc = "reranking"
    /\ rrPc = "returned"
    /\ searchResults' = rrReturn
    /\ events' = Append(events, [type |-> "reranking", resultCount |-> Len(rrReturn)])
    /\ plPc' = "yieldedRerankingCount"
    /\ UNCHANGED <<clockTicks, isMockMode, msDocuments, plOp, question, useReranking, useHybridSearch,
                   plError, retrieved, ragResponse, hybridSearchCalls, rerankerCalls,
                   llmContexts, llmStream, llmRead>>
    /\ UNCHANGED <<hsVars, rrVars>>
    /\ UNCHANGED <<pulls, clockVars>>
    /\ UNCHANGED <<cfVars, mkVars>>

\* streamQuery, lines 210-247: the context is built, the Answer Generator is called
\* (mockLLM.streamAnswer or chain.stream) and the loop is pulled for the first time
streamQuery_generate ==
    /\ plOp = "streamQuery"
    /\ plPc = "yieldedGeneration"
    /\ llmContexts' = Append(llmContexts, contextOf(searchResults))
    /\ \E o \in streamOutcomes(isMockMode,
                               MockLLM_streamAnswer(question, contextOf(searchResults)), 0) :
           streamYield(o)
    /\ UNCHANGED <<clockTicks, isMockMode, msDocuments, plOp, question, useReranking, useHybridSearch,
                   retrieved, searchResults, ragResponse, hybridSearchCalls, rerankerCalls>>
    /\ UNCHANGED <<hsVars, rrVars>>
    /\ pulls' = pulls + 1
    /\ UNCHANGED clockVars
    /\ UNCHANGED <<cfVars, mkVars>>

\* streamQuery, lines 220-222 and 241-246: the loop is pulled again
streamQuery_chunk ==
    /\ plOp = "streamQuery"
    /\ plPc = "yieldedChunk"
    /\ \E o \in streamOutcomes(isMockMode, llmStream, llmRead) : streamYield(o)
    /\ UNCHANGED <<clockTicks, isMockMode, msDocuments, plOp, question, useReranking, useHybridSearch,
                   retrieved, searchResults, ragResponse, hybridSearchCalls, rerankerCalls,
                   llmContexts>>
    /\ UNCHANGED <<hsVars, rrVars>>
    /\ pulls' = pulls + 1
    /\ UNCHANGED clockVars
    /\ UNCHANGED <<cfVars, mkVars>>

\* streamQuery, line 259: the pull after {type: 'complete'} ends the sequence
streamQuery_return ==
    /\ plOp = "streamQuery"
    /\ plPc = "yieldedComplete"
    /\ plPc' = "resolved"
    /\ UNCHANGED <<clockTicks, isMockMode, msDocuments, plOp, question, useReranking, useHybridSearch,
                   plError, retrieved, searchResults, ragResponse, events, hybridSearchCalls,
                   rerankerCalls, llmContexts, llmStream, llmRead>>
    /\ UNCHANGED <<hsVars, rrVars>>
    /\ pulls' = pulls + 1
    /\ UNCHANGED clockVars
    /\ UNCHANGED <<cfVars, mkVars>>

\* a pipeline constructed in mock or live mode (its MockVectorStore holds no
\* document), and one call of query or streamQuery
InitPipeline ==
    /\ hsIdle
    /\ rrIdle
    /\ isMockMode \in BOOLEAN
    /\ msDocuments = <<>>
    /\ plOp \in {"query", "streamQuery"}
    /\ question \in Questions
    /\ useReranking \in BOOLEAN
    /\ useHybridSearch \in BOOLEAN
    /\ plPc = "called"
    /\ plError = ""
    /\ retrieved = <<>>
    /\ searchResults = <<>>
    /\ ragResponse = <<>>
    /\ events = <<>>
    /\ hybridSearchCalls = 0
    /\ rerankerCalls = 0
    /\ llmContexts = <<>>
    /\ llmStream = <<>>
    /\ llmRead = 0
    /\ pulls = 0
    /\ clockTicks = {0}
    /\ now = 0
    /\ rerankingStart = 0
    /\ metrics = noMetrics
    /\ cfIdle
    /\ mkIdle

\* the steps of the operation and of the reranker call it makes; the reranker's
\* other steps (the MockReranker's, the early returns on no result) need a call
\* with mock results or with no result, which the pipeline never makes
NextPipeline ==
    \/ query_retrieve
    \/ query_rerank
    \/ query_reranked
    \/ query_generate
    \/ streamQuery_start
    \/ streamQuery_retrieve
    \/ streamQuery_stage
    \/ streamQuery_rerank
    \/ streamQuery_reranked
    \/ streamQuery_generate
    \/ streamQuery_chunk
    \/ streamQuery_return
    \/ Reranker_rerankWithMetadata_reranked
    \/ Reranker_rerankWithMetadata_catch
    \/ Reranker_rerank_reranked
    \/ Reranker_rerank_catch

SpecPipeline == InitPipeline /\ [][NextPipeline]_vars

\* a call of query() under a clock that ticks
InitMetrics ==
    /\ hsIdle
    /\ rrIdle
    /\ isMockMode \in BOOLEAN
    /\ msDocuments = <<>>
    /\ plOp = "query"
    /\ question \in Questions
    /\ useReranking \in BOOLEAN
    /\ useHybridSearch \in BOOLEAN
    /\ plPc = "called"
    /\ plError = ""
    /\ retrieved = <<>>
    /\ searchResults = <<>>
    /\ ragResponse = <<>>
    /\ events = <<>>
    /\ hybridSearchCalls = 0
    /\ rerankerCalls = 0
    /\ llmContexts = <<>>
    /\ llmStream = <<>>
    /\ llmRead = 0
    /\ pulls = 0
    /\ clockTicks = Ticks
    /\ now = 0
    /\ rerankingStart = 0
    /\ metrics = noMetrics
    /\ cfIdle
    /\ mkIdle

NextMetrics ==
    \/ query_retrieve
    \/ query_rerank
    \/ query_reranked
    \/ query_generate
    \/ Reranker_rerankWithMetadata_reranked
    \/ Reranker_rerankWithMetadata_catch
    \/ Reranker_rerank_reranked
    \/ Reranker_rerank_catch

SpecMetrics == InitMetrics /\ [][NextMetrics]_vars

----------------------------------------------------------------------------
(* The retrieval stage of a live pipeline, on the HybridVectorStore *)

\* config.rag.hybridSearchAlpha, 0.5 by default, as a numerator over AlphaDen
hybridSearchAlpha == AlphaDen \div 2

\* query lines 79-84, streamQuery lines 188-192: whatever options.useHybridSearch
\* is, the call is this.vectorStore.hybridSearch(question, config.rag.topK), with
\* alpha left to its default
retrieval_hybridSearch ==
    /\ \/ plOp = "query" /\ plPc = "called"
       \/ plOp = "streamQuery" /\ plPc = "yieldedRetrieval"
    /\ hsPc = "idle"
    /\ hsQuery' = question
    /\ hsLimit' = topK
    /\ hsAlpha' = hybridSearchAlpha
    /\ hsPc' = "called"
    /\ plPc' = "retrieving"
    /\ hybridSearchCalls' = hybridSearchCalls + 1
    /\ pulls' = IF plOp = "streamQuery" THEN pulls + 1 ELSE pulls
    /\ UNCHANGED <<vectorResults, keywordResults, hsResult>>
    /\ UNCHANGED <<clockTicks, isMockMode, msDocuments, plOp, question, useReranking,
                   useHybridSearch, plError, retrieved, searchResults, ragResponse, events,
                   rerankerCalls, llmContexts, llmStream, llmRead>>
    /\ UNCHANGED <<rrVars, clockVars>>
    /\ UNCHANGED <<cfVars, mkVars>>

\* query line 80/83, streamQuery lines 189-194: hybridSearch has returned
retrieval_returned ==
    /\ plPc = "retrieving"
    /\ hsPc = "returned"
    /\ retrieved' = hsResult
    /\ searchResults' = hsResult
    /\ events' = IF plOp = "streamQuery"
                 THEN Append(events, [type |-> "retrieval", resultCount |-> Len(hsResult)])
                 ELSE events
    /\ plPc' = IF plOp = "streamQuery" THEN "yieldedRetrievalCount" ELSE "retrieved"
    /\ UNCHANGED <<clockTicks, isMockMode, msDocuments, plOp, question, useReranking,
                   useHybridSearch, plError, ragResponse, hybridSearchCalls,
                   rerankerCalls, llmContexts, llmStream, llmRead, pulls>>
    /\ UNCHANGED <<hsVars, rrVars, clockVars>>
    /\ UNCHANGED <<cfVars, mkVars>>

\* a live pipeline at its retrieval stage: query() just called, or streamQuery
\* after its first yield
InitRetrieval ==
    /\ hsIdle
    /\ rrIdle
    /\ isMockMode = FALSE
    /\ msDocuments = <<>>
    /\ plOp \in {"query", "streamQuery"}
    /\ question \in Queries
    /\ useReranking \in BOOLEAN
    /\ useHybridSearch \in BOOLEAN
    /\ plPc = IF plOp = "query" THEN "called" ELSE "yieldedRetrieval"
    /\ plError = ""
    /\ retrieved = <<>>
    /\ searchResults = <<>>
    /\ ragResponse = <<>>
    /\ events = IF plOp = "query" THEN <<>> ELSE <<[type |-> "retrieval"]>>
    /\ hybridSearchCalls = 0
    /\ rerankerCalls = 0
    /\ llmContexts = <<>>
    /\ llmStream = <<>>
    /\ llmRead = 0
    /\ pulls = IF plOp = "query" THEN 0 ELSE 1
    /\ clockTicks = {0}
    /\ now = 0
    /\ rerankingStart = 0
    /\ metrics = noMetrics
    /\ cfIdle
    /\ mkIdle

NextRetrieval ==
    \/ retrieval_hybridSearch
    \/ hybridSearch_vectorSearch
    \/ hybridSearch_keywordSearch
    \/ hybridSearch_return
    \/ retrieval_returned

SpecRetrieval == InitRetrieval /\ [][NextRetrieval]_vars

\* the documents of a result list, in order
documentsOf(results) == [i \in 1..Len(results) |-> results[i].document]

\* C18 (the claim as stated): with useHybridSearch = false the retrieved results
\* are the vector list's ordering alone, whatever the keyword search returned
C18_VectorOnly ==
    (~useHybridSearch /\ plPc \in {"retrieved", "yieldedRetrievalCount"}) =>
        documentsOf(retrieved)
            = documentsOf(reciprocalRankFusion(vectorResults, <<>>, AlphaDen, topK))

----------------------------------------------------------------------------
(* Properties of the pipeline *)

\* C6 (the claim as stated): when a call of the rerank provider has thrown during
\* query() with useReranking, the query is not rejected by the reranking stage and
\* the sources of its RAGResponse are the first rerankTopK results of the
\* pre-rerank order, with their pre-rerank scores
C6_RerankFailureKeepsOrder ==
    (plOp = "query" /\ useReranking /\ cohereFailures >= 1) =>
        /\ plError # "reranking"
        /\ plPc = "resolved" =>
              /\ Len(ragResponse) = 1
              /\ ragResponse[1].sources = sourcesOf(slice(retrieved, rerankTopK))

\* C7 (the claim as stated): the reranker makes at most one provider call per
\* query; after a failed call it makes no other
C7_AtMostOneProviderCall ==
    plOp \in {"query", "streamQuery"} => cohereCalls <= 1

\* C9: in query(), when retrieval returned no result, neither the reranker nor the
\* Answer Generator is called, the answer is the fixed text and there is no source
C9_EmptyRetrieval ==
    (plOp = "query" /\ plPc \in {"retrieved", "reranking", "reranked", "resolved", "rejected"}
        /\ plError # "retrieval" /\ retrieved = <<>>) =>
        /\ rerankerCalls = 0
        /\ llmContexts = <<>>
        /\ plPc # "rejected"
        /\ plPc = "resolved" =>
              /\ Len(ragResponse) = 1
              /\ ragResponse[1].answer = NoInformationAnswer
              /\ ragResponse[1].sources = <<>>

\* C9 witness: a query with useReranking, answered after a retrieval of no result
C9_Witness ==
    /\ plOp = "query"
    /\ useReranking
    /\ plPc = "resolved"
    /\ hybridSearchCalls = 1
    /\ retrieved = <<>>

\* C10 (the claim as stated): in streamQuery, when retrieval returned no
\* candidate, the Answer Generator is never called
C10_StreamSkipsGeneration ==
    (plOp = "streamQuery" /\ hybridSearchCalls = 1 /\ plError # "retrieval"
        /\ retrieved = <<>>) =>
        llmContexts = <<>>

\* the events of a streamQuery run up to its generation stage: {type: 'retrieval'},
\* the retrieval count, the reranking pair if the reranker was called, then
\* {type: 'generation'}
stagePrefix ==
    <<[type |-> "retrieval"], [type |-> "retrieval", resultCount |-> Len(retrieved)]>>
    \o (IF rerankerCalls = 1
        THEN <<[type |-> "reranking"],
               [type |-> "reranking", resultCount |-> Len(searchResults)]>>
        ELSE <<>>)
    \o <<[type |-> "generation"]>>

\* the events from position i to position j carry text chunks
chunkEvents(i, j) ==
    \A n \in i..j : events[n].type = "generation" /\ DOMAIN events[n] = {"type", "chunk"}

\* C11: a streamQuery run that finished without error has emitted retrieval,
\* retrieval with resultCount, the reranking pair only if reranking ran, one
\* generation start, chunk events, and last a single complete event with the
\* final sources
C11_EventOrder ==
    (plOp = "streamQuery" /\ plPc \in {"yieldedComplete", "resolved"}) =>
        /\ Len(events) >= Len(stagePrefix) + 1
        /\ SubSeq(events, 1, Len(stagePrefix)) = stagePrefix
        /\ chunkEvents(Len(stagePrefix) + 1, Len(events) - 1)
        /\ events[Len(events)] = [type |-> "complete", sources |-> sourcesOf(searchResults)]

\* C11 witness: a finished run with a reranking stage and at least one text chunk
C11_Witness ==
    /\ plOp = "streamQuery"
    /\ plPc = "resolved"
    /\ rerankerCalls = 1
    /\ Len(events) >= 7
    /\ events[6].chunk # <<>>

\* C12 (the claim as stated): a finished streamQuery run has emitted the reranking
\* pair if useReranking is set, whatever retrieval returned, and no reranking
\* event if it is not set
C12_RerankingPairIffEnabled ==
    (plOp = "streamQuery" /\ plPc \in {"yieldedComplete", "resolved"}) =>
        IF useReranking
        THEN /\ \E i \in 1..Len(events) : events[i] = [type |-> "reranking"]
             /\ \E i \in 1..Len(events) :
                    events[i].type = "reranking" /\ "resultCount" \in DOMAIN events[i]
        ELSE \A i \in 1..Len(events) : events[i].type # "reranking"

\* C13: when retrieval or the generator fails during streamQuery, the events
\* yielded before the failing step are the ones the consumer has, the run is
\* rejected and there is no complete event
C13_StreamFailure ==
    (plOp = "streamQuery" /\ plPc = "rejected") =>
        /\ plError \in {"retrieval", "generation"}
        /\ \A i \in 1..Len(events) : events[i].type # "complete"
        /\ plError = "retrieval" => events = <<[type |-> "retrieval"]>>
        /\ plError = "generation" =>
              /\ SubSeq(events, 1, Len(stagePrefix)) = stagePrefix
              /\ chunkEvents(Len(stagePrefix) + 1, Len(events))

\* C13 witness: the live generator failed after a text chunk was delivered
C13_Witness ==
    /\ plOp = "streamQuery"
    /\ plPc = "rejected"
    /\ plError = "generation"
    /\ llmRead >= 1
    /\ events # <<>>
    /\ "chunk" \in DOMAIN events[Len(events)]

\* C14: in query(), a failed retrieval or generator call rejects the query with
\* no RAGResponse, and hybridSearch and the generator are called at most once
C14_QueryFailureSurfaces ==
    plOp = "query" =>
        /\ hybridSearchCalls <= 1
        /\ Len(llmContexts) <= 1
        /\ plError \in {"", "retrieval", "generation"}
        /\ plError # "" <=> plPc = "rejected"
        /\ plPc = "rejected" => ragResponse = <<>>
        /\ (plError = "retrieval") => (rerankerCalls = 0 /\ llmContexts = <<>>)
        /\ (plPc = "resolved") => Len(ragResponse) = 1

\* C14 witness: the generator call failed after retrieval and reranking
C14_Witness ==
    /\ plOp = "query"
    /\ plPc = "rejected"
    /\ plError = "generation"
    /\ rerankerCalls = 1
    /\ Len(llmContexts) = 1

\* C16 (the claim as stated): with an empty question, query and streamQuery make
\* no retrieval, reranking or generation call and produce no RAGResponse and no
\* event
C16_EmptyQuestionRejected ==
    (plOp \in {"query", "streamQuery"} /\ question = <<>>) =>
        /\ hybridSearchCalls = 0
        /\ rerankerCalls = 0
        /\ llmContexts = <<>>
        /\ ragResponse = <<>>
        /\ events = <<>>

\* the calls made to the vector store, the reranker, the rerank provider and the
\* Answer Generator
collaboratorCalls == <<hybridSearchCalls, rerankerCalls, cohereCalls, Len(llmContexts)>>

\* streamQuery's generator is suspended: it has not been started, or it has
\* yielded an event for each next() of the consumer
suspended == plOp = "streamQuery" /\ Len(events) = pulls

\* C15: while streamQuery is suspended at a yield, a step in which the consumer
\* does not pull makes no collaborator call
C15_NoCallWithoutPull ==
    [][(suspended /\ pulls' = pulls) => collaboratorCalls' = collaboratorCalls]_vars

\* C15 witness: the consumer pulled after {type: 'reranking'} was yielded, and
\* only then the reranker was called and the provider with it
C15_Witness ==
    /\ plOp = "streamQuery"
    /\ pulls = 4
    /\ Len(events) = 3
    /\ events[3] = [type |-> "reranking"]
    /\ rerankerCalls = 1
    /\ cohereCalls = 1

\* C17: the stage times of every RAGResponse are >= 0 and add up to at most
\* totalTime; a skipped reranking stage records one advance of the clock, between
\* two readings with no call in between
C17_MetricsAddUp ==
    (plOp = "query" /\ plPc = "resolved") =>
        LET m == ragResponse[1].metrics
        IN  /\ m.retrievalTime >= 0
            /\ m.rerankingTime >= 0
            /\ m.generationTime >= 0
            /\ m.totalTime >= m.retrievalTime + m.rerankingTime + m.generationTime
            /\ rerankerCalls = 0 => m.rerankingTime \in clockTicks

\* C17 witness: a response whose reranking stage was skipped while the clock
\* advanced, with a totalTime above the sum of the stage times
C17_Witness ==
    /\ plOp = "query"
    /\ plPc = "resolved"
    /\ useReranking
    /\ rerankerCalls = 0
    /\ ragResponse[1].metrics.rerankingTime = 1
    /\ ragResponse[1].metrics.retrievalTime = 1
    /\ ragResponse[1].metrics.totalTime
           > ragResponse[1].metrics.retrievalTime + ragResponse[1].metrics.rerankingTime
             + ragResponse[1].metrics.generationTime

----------------------------------------------------------------------------
(* Concurrent calls on one pipeline, and the comparison endpoint *)
(* A call of query/streamQuery is followed from await to await; between    *)
(* two awaits of one call any other call may run.                          *)

\* the most results the live store returns to one of several concurrent calls
MaxFlowResults == 1

\* the calls in progress
Calls == DOMAIN flows

\* locals kept in one place for all calls, as fields of the pipeline would be
frameShared(f) == 1

\* the activation frame of call f: each call has its own locals
frame(f) == f

\* a call of query or streamQuery that has run up to its first await
newCall(op, q, reranking, hybrid) ==
    [op |-> op, question |-> q, useReranking |-> reranking, useHybridSearch |-> hybrid,
     pc |-> "called", retrieved |-> <<>>, rerankAsked |-> <<>>, reranked |-> <<>>,
     contexts |-> <<>>, llmStream |-> <<>>, llmRead |-> 0, answer |-> <<>>,
     response |-> <<>>]

\* let searchResults: SearchResult[]
newFrame == [searchResults |-> <<>>]

\* vectorStore.hybridSearch(question, config.rag.topK) for one of several calls
flowRetrievals(mock, documents, q) ==
    IF mock
    THEN retrievalOutcomes(TRUE, documents, q)
    ELSE { [ok |-> TRUE, results |-> l] : l \in ResultLists(MaxFlowResults) }
         \cup { [ok |-> FALSE, results |-> <<>>] }

\* what reranker.rerankWithMetadata(query, results, n) may return: the
\* MockReranker's order; or any answer of the provider to the first call or to
\* the retry, or the truncated input when both calls throw
rerankWithMetadata(mock, query, results, n) ==
    IF mock THEN { MockReranker_rerank(query, results, n) }
    ELSE IF Len(results) = 0 THEN { <<>> }
    ELSE { mapReranked(results, r) :
              r \in rerankResponses(Len(results), topN(n, Len(results))) }
         \cup { slice(results, n) }

\* the retrieval await of a call has settled
flow_retrieve ==
    /\ \E f \in Calls :
          /\ flows[f].pc = "called"
          /\ \E o \in flowRetrievals(isMockMode, msDocuments, flows[f].question) :
                /\ frames' = IF o.ok
                             THEN [frames EXCEPT ![frame(f)].searchResults = o.results]
                             ELSE frames
                /\ flows' = [flows EXCEPT ![f].pc = IF o.ok THEN "retrieved" ELSE "rejected",
                                          ![f].retrieved = o.results]
    /\ UNCHANGED <<completionOrder, cmpPc, cmpQuestion, cmpResponse>>
    /\ UNCHANGED <<hsVars, rrVars, plVars, mkVars>>

\* the reranking stage of a call: skipped, or its await has settled
flow_rerank ==
    /\ \E f \in Calls :
          LET results == frames[frame(f)].searchResults
          IN  /\ flows[f].pc = "retrieved"
              /\ IF rerankingRuns(flows[f].useReranking, results)
                 THEN \E r \in rerankWithMetadata(isMockMode, flows[f].question, results,
                                                 rerankTopK) :
                         /\ frames' = [frames EXCEPT ![frame(f)].searchResults = r]
                         /\ flows' = [flows EXCEPT ![f].pc = "reranked",
                                                   ![f].rerankAsked = <<results>>,
                                                   ![f].reranked = r]
                 ELSE /\ frames' = frames
                      /\ flows' = [flows EXCEPT ![f].pc = "reranked"]
    /\ UNCHANGED <<completionOrder, cmpPc, cmpQuestion, cmpResponse>>
    /\ UNCHANGED <<hsVars, rrVars, plVars, mkVars>>

\* the generation await of a query() call has settled, and the call with it
flow_generate ==
    /\ \E f \in Calls :
          LET results == frames[frame(f)].searchResults
          IN  /\ flows[f].op = "query"
              /\ flows[f].pc = "reranked"
              /\ \E o \in generateAnswer(isMockMode, flows[f].question, results) :
                    /\ flows' = [flows EXCEPT
                          ![f].pc = IF o.ok THEN "resolved" ELSE "rejected",
                          ![f].contexts = IF o.called
                                          THEN Append(@, contextOf(results)) ELSE @,
                          ![f].answer = o.text,
                          ![f].response = IF o.ok
                                          THEN <<[answer |-> o.text,
                                                  sources |-> sourcesOf(results)]>>
                                          ELSE <<>>]
                    /\ completionOrder' = IF o.ok THEN Append(completionOrder, f)
                                          ELSE completionOrder
    /\ UNCHANGED <<frames, cmpPc, cmpQuestion, cmpResponse>>
    /\ UNCHANGED <<hsVars, rrVars, plVars, mkVars>>

\* the three configurations of /api/compare
configurations ==
    << [name |-> "Vector Search Only", useReranking |-> FALSE, useHybridSearch |-> FALSE],
       [name |-> "Hybrid Search", useReranking |-> FALSE, useHybridSearch |-> TRUE],
       [name |-> "Hybrid + Reranking", useReranking |-> TRUE, useHybridSearch |-> TRUE] >>

\* what the callback of configurations.map returns for call f (metrics left out);
\* topSource is response.sources[0], undefined when there is no source
compareEntry(f) ==
    LET r == flows[f].response[1]
    IN  [configuration |-> configurations[f].name,
         answer |-> r.answer,
         sources |-> Len(r.sources),
         topSource |-> IF r.sources = <<>> THEN <<>> ELSE <<r.sources[1]>>]

\* results listed in the order the calls resolved
joinOrderByCompletion(order) == order

\* Promise.all: the i-th result is the value of the i-th promise
joinOrder(order) == [i \in 1..Len(configurations) |-> i]

\* /api/compare, lines 70-87: a falsy question is answered 400; else the three
\* query() calls are made, each running up to its first await
compare_start ==
    /\ cmpPc = "received"
    /\ IF cmpQuestion = <<>>
       THEN /\ cmpResponse' = <<[status |-> 400]>>
            /\ cmpPc' = "responded"
            /\ UNCHANGED <<flows, frames>>
       ELSE /\ flows' = [f \in 1..Len(configurations) |->
                           newCall("query", cmpQuestion, configurations[f].useReranking,
                                   configurations[f].useHybridSearch)]
            /\ frames' = [f \in 1..Len(configurations) |-> newFrame]
            /\ cmpPc' = "waiting"
            /\ UNCHANGED cmpResponse
    /\ UNCHANGED <<completionOrder, cmpQuestion>>
    /\ UNCHANGED <<hsVars, rrVars, plVars, mkVars>>

\* /api/compare, lines 82-99: Promise.all has resolved; res.json({question, comparisons})
compare_respond ==
    /\ cmpPc = "waiting"
    /\ \A f \in Calls : flows[f].pc = "resolved"
    /\ cmpResponse' = <<[status |-> 200,
                         question |-> cmpQuestion,
                         comparisons |-> [i \in 1..Len(configurations) |->
                                             compareEntry(joinOrder(completionOrder)[i])]]>>
    /\ cmpPc' = "responded"
    /\ UNCHANGED <<flows, frames, completionOrder, cmpQuestion>>
    /\ UNCHANGED <<hsVars, rrVars, plVars, mkVars>>

\* /api/compare, lines 100-103: Promise.all has rejected with the first rejection,
\* whatever the other calls are doing; res.status(500)
compare_fail ==
    /\ cmpPc = "waiting"
    /\ \E f \in Calls : flows[f].pc = "rejected"
    /\ cmpResponse' = <<[status |-> 500]>>
    /\ cmpPc' = "responded"
    /\ UNCHANGED <<flows, frames, completionOrder, cmpQuestion>>
    /\ UNCHANGED <<hsVars, rrVars, plVars, mkVars>>

\* no call of query or streamQuery followed step by step
noOperation ==
    /\ plOp = "none"
    /\ question = <<>>
    /\ useReranking = FALSE
    /\ useHybridSearch = FALSE
    /\ plPc = "idle"
    /\ plError = ""
    /\ retrieved = <<>>
    /\ searchResults = <<>>
    /\ ragResponse = <<>>
    /\ events = <<>>
    /\ hybridSearchCalls = 0
    /\ rerankerCalls = 0
    /\ llmContexts = <<>>
    /\ llmStream = <<>>
    /\ llmRead = 0
    /\ pulls = 0
    /\ clockTicks = {0}
    /\ now = 0
    /\ rerankingStart = 0
    /\ metrics = noMetrics

\* a POST /api/compare received by the server of a mock or live pipeline
InitCompare ==
    /\ hsIdle
    /\ rrIdle
    /\ noOperation
    /\ mkIdle
    /\ isMockMode \in BOOLEAN
    /\ msDocuments = <<>>
    /\ flows = <<>>
    /\ frames = <<>>
    /\ completionOrder = <<>>
    /\ cmpPc = "received"
    /\ cmpQuestion \in Questions
    /\ cmpResponse = <<>>

NextCompare ==
    \/ compare_start
    \/ flow_retrieve
    \/ flow_rerank
    \/ flow_generate
    \/ compare_respond
    \/ compare_fail

SpecCompare == InitCompare /\ [][NextCompare]_vars

\* C19: a response that carries comparisons is sent only when all three calls
\* have resolved, and it lists their results in the order vector-only, hybrid,
\* hybrid+rerank whatever order they resolved in; when a call has failed the
\* response carries no comparison
C19_FanOutJoin ==
    cmpResponse # <<>> =>
        /\ cmpResponse[1].status = 200 =>
              /\ DOMAIN flows = 1..3
              /\ \A f \in 1..3 : flows[f].pc = "resolved"
              /\ Len(cmpResponse[1].comparisons) = 3
              /\ cmpResponse[1].comparisons[1].configuration = "Vector Search Only"
              /\ cmpResponse[1].comparisons[2].configuration = "Hybrid Search"
              /\ cmpResponse[1].comparisons[3].configuration = "Hybrid + Reranking"
              /\ \A f \in 1..3 :
                    /\ ~flows[f].useReranking <=> f \in {1, 2}
                    /\ ~flows[f].useHybridSearch <=> f = 1
                    /\ cmpResponse[1].comparisons[f].answer = flows[f].response[1].answer
                    /\ cmpResponse[1].comparisons[f].sources
                           = Len(flows[f].response[1].sources)
        /\ (\E f \in Calls : flows[f].pc = "rejected") =>
              /\ cmpResponse[1].status = 500
              /\ "comparisons" \notin DOMAIN cmpResponse[1]

\* C19 witness: the comparisons were sent after the hybrid+rerank call resolved
\* first and the vector-only call last, with different numbers of sources
C19_Witness ==
    /\ cmpResponse # <<>>
    /\ cmpResponse[1].status = 200
    /\ completionOrder = <<3, 2, 1>>
    /\ cmpResponse[1].comparisons[1].sources = 1
    /\ cmpResponse[1].comparisons[3].sources = 0

----------------------------------------------------------------------------
(* Concurrent calls of query and streamQuery *)

\* the calls in flight at once on the server's one pipeline
ConcurrentCalls == {1, 2}

\* a call after a pull of its LLM stream; the sources of {type: 'complete'} are
\* read from searchResults when the stream has ended
flowPull(fl, results, o) ==
    [fl EXCEPT !.llmStream = o.rest,
               !.llmRead = o.read,
               !.answer = IF o.kind = "chunk" THEN @ \o o.chunk ELSE @,
               !.pc = IF o.kind = "chunk" THEN "streaming"
                      ELSE IF o.kind = "end" THEN "resolved"
                      ELSE "rejected",
               !.response = IF o.kind = "end"
                            THEN <<[answer |-> fl.answer, sources |-> sourcesOf(results)]>>
                            ELSE <<>>]

\* streamQuery, lines 210-247: the generator is called with the context and its
\* stream is pulled for the first time
flow_stream_generate ==
    /\ \E f \in Calls :
          LET results == frames[frame(f)].searchResults
              called == [flows[f] EXCEPT !.contexts = Append(@, contextOf(results))]
          IN  /\ flows[f].op = "streamQuery"
              /\ flows[f].pc = "reranked"
              /\ \E o \in streamOutcomes(isMockMode,
                                         MockLLM_streamAnswer(flows[f].question,
                                                              contextOf(results)), 0) :
                    /\ flows' = [flows EXCEPT ![f] = flowPull(called, results, o)]
                    /\ completionOrder' = IF o.kind = "end" THEN Append(completionOrder, f)
                                          ELSE completionOrder
    /\ UNCHANGED <<frames, cmpPc, cmpQuestion, cmpResponse>>
    /\ UNCHANGED <<hsVars, rrVars, plVars, mkVars>>

\* streamQuery, lines 220-258: the stream is pulled again
flow_stream_chunk ==
    /\ \E f \in Calls :
          /\ flows[f].pc = "streaming"
          /\ \E o \in streamOutcomes(isMockMode, flows[f].llmStream, flows[f].llmRead) :
                /\ flows' = [flows EXCEPT
                                ![f] = flowPull(@, frames[frame(f)].searchResults, o)]
                /\ completionOrder' = IF o.kind = "end" THEN Append(completionOrder, f)
                                      ELSE completionOrder
    /\ UNCHANGED <<frames, cmpPc, cmpQuestion, cmpResponse>>
    /\ UNCHANGED <<hsVars, rrVars, plVars, mkVars>>

\* calls of query and streamQuery, with any arguments, in flight on one mock or
\* live pipeline; the live collaborators answer anything whatever the question
\* and useHybridSearch are, so there one value of each stands for all
InitConcurrent ==
    /\ hsIdle
    /\ rrIdle
    /\ noOperation
    /\ mkIdle
    /\ isMockMode \in BOOLEAN
    /\ msDocuments = <<>>
    /\ flows \in [ConcurrentCalls ->
                    { newCall(op, q, reranking, hybrid) :
                         op \in {"query", "streamQuery"}, q \in Questions,
                         reranking \in BOOLEAN, hybrid \in BOOLEAN }]
    /\ isMockMode \/ \A f \in ConcurrentCalls :
                         flows[f].question = textApi /\ flows[f].useHybridSearch
    /\ frames = [f \in ConcurrentCalls |-> newFrame]
    /\ completionOrder = <<>>
    /\ cmpPc = "idle"
    /\ cmpQuestion = <<>>
    /\ cmpResponse = <<>>

NextConcurrent ==
    \/ flow_retrieve
    \/ flow_rerank
    \/ flow_generate
    \/ flow_stream_generate
    \/ flow_stream_chunk

SpecConcurrent == InitConcurrent /\ [][NextConcurrent]_vars

\* the fragments of a stream, joined
RECURSIVE joinText(_)
joinText(fragments) ==
    IF fragments = <<>> THEN <<>> ELSE Head(fragments) \o joinText(Tail(fragments))

\* the search results a call ends with when it runs alone and its collaborators
\* return to it what they returned to call fl
aloneResults(fl) ==
    IF rerankingRuns(fl.useReranking, fl.retrieved) THEN fl.reranked ELSE fl.retrieved

\* the answer of a call that runs alone on a mock pipeline
aloneMockAnswer(fl) ==
    IF fl.op = "streamQuery"
    THEN joinText(MockLLM_streamAnswer(fl.question, contextOf(aloneResults(fl))))
    ELSE IF skipsGeneration(aloneResults(fl)) THEN NoInformationAnswer
    ELSE MockLLM_generateAnswer(fl.question, contextOf(aloneResults(fl)))

\* call fl returned what it returns when it runs alone
asAlone(fl) ==
    /\ fl.rerankAsked = IF rerankingRuns(fl.useReranking, fl.retrieved)
                        THEN <<fl.retrieved>> ELSE <<>>
    /\ fl.contexts = IF fl.op = "query" /\ skipsGeneration(aloneResults(fl))
                     THEN <<>> ELSE <<contextOf(aloneResults(fl))>>
    /\ fl.response[1].sources = sourcesOf(aloneResults(fl))
    /\ fl.response[1].answer = fl.answer
    /\ isMockMode =>
          /\ fl.retrieved = MockVectorStore_hybridSearch(msDocuments, fl.question, topK)
          /\ fl.response[1].answer = aloneMockAnswer(fl)

\* C20: in every interleaving of concurrent query and streamQuery calls, each
\* call that resolves returns the search results, sources and answer it returns
\* when run alone, and no step writes a field of the pipeline or of its store
C20_NoInterference ==
    /\ [](\A f \in Calls : flows[f].pc = "resolved" => asAlone(flows[f]))
    /\ [][isMockMode' = isMockMode /\ msDocuments' = msDocuments]_vars

\* C20 witness: a query and a streamQuery that retrieved different results both
\* resolved, the one called second first, the other after a reranking
C20_Witness ==
    /\ DOMAIN flows = ConcurrentCalls
    /\ flows[1].op = "query"
    /\ flows[2].op = "streamQuery"
    /\ flows[1].pc = "resolved"
    /\ flows[2].pc = "resolved"
    /\ completionOrder = <<2, 1>>
    /\ flows[1].retrieved # flows[2].retrieved
    /\ flows[1].retrieved # <<>>
    /\ flows[1].rerankAsked # <<>>
    /\ flows[2].answer # <<>>

----------------------------------------------------------------------------
(* The mock services called on their own: MockLLM and MockEmbeddings *)

\* new Array(1536)
dimensions == 1536

\* the texts asked of the mock services: "", "api", "GydZG_" (whose hash is -2^31),
\* "zzzzzz" (whose hash is negative), "Aa" and "BB" (which have the same hash),
\* and "a  b " (with two spaces in a row and one at the end)
MockQuestions ==
    { <<>>, textApi, <<71, 121, 100, 90, 71, 95>>, <<122, 122, 122, 122, 122, 122>>,
      <<65, 97>>, <<66, 66>>, <<97, 32, 32, 98, 32>> }

\* MockEmbeddings.generateMockEmbedding(text): the array of 1536 numbers whose
\* element i is Math.sin(hash * (i + 1)) * 0.5 + 0.5, given by the hash that all
\* its elements are computed from and by its length
generateMockEmbedding(text) ==
    [sinOf |-> hashCode(text), length |-> dimensions]

\* a call llm.generateAnswer(question, context), resolved
MockLLM_generateAnswer_call ==
    /\ Len(mockLog) < 2
    /\ \E q \in MockQuestions, context \in PageContents :
           mockLog' = Append(mockLog, [fn |-> "generateAnswer", question |-> q,
                                       context |-> context, done |-> TRUE,
                                       returned |-> MockLLM_generateAnswer(q, context)])
    /\ UNCHANGED <<storeDocuments, storeEmbeddings, addCalls, cpDocuments, cpDone, allChunks>>
    /\ UNCHANGED <<hsVars, rrVars, plVars, cfVars>>

\* a call llm.streamAnswer(question, context): the generator, which has not run yet
MockLLM_streamAnswer_call ==
    /\ Len(mockLog) < 2
    /\ \E q \in MockQuestions, context \in PageContents :
           mockLog' = Append(mockLog, [fn |-> "streamAnswer", question |-> q,
                                       context |-> context, done |-> FALSE,
                                       returned |-> <<>>])
    /\ UNCHANGED <<storeDocuments, storeEmbeddings, addCalls, cpDocuments, cpDone, allChunks>>
    /\ UNCHANGED <<hsVars, rrVars, plVars, cfVars>>

\* next() on one of the generators: the next fragment, or the end of the loop
MockLLM_streamAnswer_next ==
    /\ \E c \in 1..Len(mockLog) :
           /\ mockLog[c].fn = "streamAnswer"
           /\ ~mockLog[c].done
           /\ LET fragments == MockLLM_streamAnswer(mockLog[c].question, mockLog[c].context)
                  i == Len(mockLog[c].returned)
              IN  mockLog' =
                      IF i < Len(fragments)
                      THEN [mockLog EXCEPT ![c].returned = Append(@, fragments[i + 1])]
                      ELSE [mockLog EXCEPT ![c].done = TRUE]
    /\ UNCHANGED <<storeDocuments, storeEmbeddings, addCalls, cpDocuments, cpDone, allChunks>>
    /\ UNCHANGED <<hsVars, rrVars, plVars, cfVars>>

\* a call embeddings.embedQuery(query), resolved
MockEmbeddings_embedQuery_call ==
    /\ Len(mockLog) < 2
    /\ \E q \in MockQuestions :
           mockLog' = Append(mockLog, [fn |-> "embedQuery", question |-> q,
                                       context |-> <<>>, done |-> TRUE,
                                       returned |-> generateMockEmbedding(q)])
    /\ UNCHANGED <<storeDocuments, storeEmbeddings, addCalls, cpDocuments, cpDone, allChunks>>
    /\ UNCHANGED <<hsVars, rrVars, plVars, cfVars>>

\* the mock services constructed, before any call
InitMockServices ==
    /\ hsIdle
    /\ rrIdle
    /\ plIdle
    /\ cfIdle
    /\ mkIdle

NextMockServices ==
    \/ MockLLM_generateAnswer_call
    \/ MockLLM_streamAnswer_call
    \/ MockLLM_streamAnswer_next
    \/ MockEmbeddings_embedQuery_call

SpecMockServices == InitMockServices /\ [][NextMockServices]_vars

\* the calls made of fn
callsOf(fn) == { c \in 1..Len(mockLog) : mockLog[c].fn = fn }

\* C21: every generateAnswer call selects an index in 0..2 and returns one of the
\* three canned responses, which is not empty; two calls with the same question
\* and context return the same text
C21_GenerateAnswerTotal ==
    \A c \in callsOf("generateAnswer") :
        /\ responseIndex(mockLog[c].question) \in 0..2
        /\ \E i \in 1..3 : mockLog[c].returned = responses(mockLog[c].question)[i]
        /\ Len(mockLog[c].returned) > 0
        /\ \A e \in callsOf("generateAnswer") :
               (mockLog[e].question = mockLog[c].question
                /\ mockLog[e].context = mockLog[c].context)
                   => mockLog[e].returned = mockLog[c].returned

\* C21 witness: two calls with the question whose hash is -2^31, the second
\* response selected both times
C21_Witness ==
    /\ Len(mockLog) = 2
    /\ \A c \in 1..2 :
           /\ mockLog[c].fn = "generateAnswer"
           /\ hashCode(mockLog[c].question) = -2147483647 - 1
           /\ mockLog[c].context = textDb
           /\ mockLog[c].returned = responses(mockLog[c].question)[3]

\* C22: the fragments of a finished stream, joined in the order they were yielded,
\* are the text generateAnswer returns for the same input; two streams of the same
\* input yield the same fragments, as far as both have got
C22_StreamIsAnswer ==
    \A c \in callsOf("streamAnswer") :
        /\ mockLog[c].done =>
               joinText(mockLog[c].returned)
                   = MockLLM_generateAnswer(mockLog[c].question, mockLog[c].context)
        /\ \A e \in callsOf("streamAnswer") :
               (mockLog[e].question = mockLog[c].question
                /\ mockLog[e].context = mockLog[c].context)
                   => \A i \in 1..Min(Len(mockLog[c].returned), Len(mockLog[e].returned)) :
                          mockLog[c].returned[i] = mockLog[e].returned[i]

\* C22 witness: two finished streams of a question with two spaces in a row and
\* one at its end, which yields fragments that are a lone space
C22_Witness ==
    /\ Len(mockLog) = 2
    /\ \A c \in 1..2 :
           /\ mockLog[c].fn = "streamAnswer"
           /\ mockLog[c].done
           /\ mockLog[c].question = <<97, 32, 32, 98, 32>>
           /\ \E i \in 1..Len(mockLog[c].returned) : mockLog[c].returned[i] = <<32>>
    /\ mockLog[1].returned = mockLog[2].returned

\* C23 (the claim as stated): two embedQuery calls return equal vectors exactly
\* when their texts are equal
C23_DistinctEmbeddings ==
    \A c, e \in callsOf("embedQuery") :
        (mockLog[c].returned = mockLog[e].returned)
            <=> (mockLog[c].question = mockLog[e].question)

----------------------------------------------------------------------------
(* A MockVectorStore called on its own *)

\* the most documents the store is given to hold
MaxStored == 2

\* the arrays of at most n documents passed to addDocuments
RECURSIVE DocumentLists(_)
DocumentLists(n) ==
    IF n = 0 THEN { <<>> }
    ELSE DocumentLists(n - 1) \cup
         { Append(l, [pageContent |-> c]) :
               l \in { t \in DocumentLists(n - 1) : Len(t) = n - 1 }, c \in PageContents }

\* addDocuments up to its await: this.documents.push(...documents), and the call
\* of embedDocuments, whose promise the call then waits for; the store is given
\* no more documents than MaxStored, and no more embeddings
MockVectorStore_addDocuments ==
    /\ Len(addCalls) < 2
    /\ \E docs \in DocumentLists(MaxStored - Len(storeDocuments)) :
           /\ Len(storeEmbeddings) + Len(docs)
                  + sumSeq([c \in 1..Len(addCalls) |-> Len(addCalls[c])]) <= MaxStored
           /\ storeDocuments' = storeDocuments \o docs
           /\ addCalls' = Append(addCalls,
                                 [i \in 1..Len(docs) |->
                                     generateMockEmbedding(docs[i].pageContent)])
    /\ UNCHANGED <<storeEmbeddings, mockLog, cpDocuments, cpDone, allChunks>>
    /\ UNCHANGED <<hsVars, rrVars, plVars, cfVars>>

\* addDocuments after its await: this.embeddings.push(...newEmbeddings); the calls
\* resume in the order they were made, their promises being resolved in that order
MockVectorStore_addDocuments_resume ==
    /\ addCalls # <<>>
    /\ storeEmbeddings' = storeEmbeddings \o Head(addCalls)
    /\ addCalls' = Tail(addCalls)
    /\ UNCHANGED <<storeDocuments, mockLog, cpDocuments, cpDone, allChunks>>
    /\ UNCHANGED <<hsVars, rrVars, plVars, cfVars>>

\* deleteCollection, which has no await: this.documents = []; this.embeddings = []
MockVectorStore_deleteCollection ==
    /\ storeDocuments' = <<>>
    /\ storeEmbeddings' = <<>>
    /\ UNCHANGED <<addCalls, mockLog, cpDocuments, cpDone, allChunks>>
    /\ UNCHANGED <<hsVars, rrVars, plVars, cfVars>>

\* a call store.hybridSearch(query, limit), resolved; the last call is kept
MockVectorStore_hybridSearch_call ==
    /\ \E q \in RerankQueries, limit \in 0..MaxLimit :
           mockLog' = << [fn |-> "hybridSearch", question |-> q, limit |-> limit,
                          stored |-> Len(storeDocuments), done |-> TRUE,
                          returned |-> MockVectorStore_hybridSearch(storeDocuments, q, limit)] >>
    /\ UNCHANGED <<storeDocuments, storeEmbeddings, addCalls, cpDocuments, cpDone, allChunks>>
    /\ UNCHANGED <<hsVars, rrVars, plVars, cfVars>>

\* a new MockVectorStore()
InitMockStore ==
    /\ hsIdle
    /\ rrIdle
    /\ plIdle
    /\ cfIdle
    /\ mkIdle

NextMockStore ==
    \/ MockVectorStore_addDocuments
    \/ MockVectorStore_addDocuments_resume
    \/ MockVectorStore_deleteCollection
    \/ MockVectorStore_hybridSearch_call

SpecMockStore == InitMockStore /\ [][NextMockStore]_vars

\* C24 (the claim as stated): hybridSearch returns at most min(limit, number of
\* stored documents) results, and none on an empty store
C24_AtMostLimit ==
    \A c \in callsOf("hybridSearch") :
        /\ Len(mockLog[c].returned) <= Min(mockLog[c].limit, mockLog[c].stored)
        /\ mockLog[c].stored = 0 => mockLog[c].returned = <<>>

\* C28 (the claim as stated): whenever no addDocuments call is in progress the two
\* arrays have the same length and embeddings[i] is the embedding of documents[i]
C28_ArraysAligned ==
    addCalls = <<>> =>
        /\ Len(storeDocuments) = Len(storeEmbeddings)
        /\ \A i \in 1..Len(storeDocuments) :
               storeEmbeddings[i] = generateMockEmbedding(storeDocuments[i].pageContent)

----------------------------------------------------------------------------
(* A query in mock mode against a mock store that holds documents *)

\* the most documents the seeded store holds: one more than config.rag.topK
MaxSeeded == 11

\* the stores of at most n documents, each "Db" or "db api"
RECURSIVE SeededStores(_)
SeededStores(n) ==
    IF n = 0 THEN { <<>> }
    ELSE SeededStores(n - 1) \cup
         { Append(l, [pageContent |-> c]) :
               l \in { t \in SeededStores(n - 1) : Len(t) = n - 1 },
               c \in {textDb, textDbApi} }

\* a call query(question, {useReranking: false}) on a pipeline in mock mode whose
\* MockVectorStore has been given documents
InitSeeded ==
    /\ hsIdle
    /\ rrIdle
    /\ isMockMode = TRUE
    /\ msDocuments \in SeededStores(MaxSeeded)
    /\ plOp = "query"
    /\ question \in RerankQueries
    /\ useReranking = FALSE
    /\ useHybridSearch \in BOOLEAN
    /\ plPc = "called"
    /\ plError = ""
    /\ retrieved = <<>>
    /\ searchResults = <<>>
    /\ ragResponse = <<>>
    /\ events = <<>>
    /\ hybridSearchCalls = 0
    /\ rerankerCalls = 0
    /\ llmContexts = <<>>
    /\ llmStream = <<>>
    /\ llmRead = 0
    /\ pulls = 0
    /\ clockTicks = {0}
    /\ now = 0
    /\ rerankingStart = 0
    /\ metrics = noMetrics
    /\ cfIdle
    /\ mkIdle

NextSeeded ==
    \/ query_retrieve
    \/ query_rerank
    \/ query_generate

SpecSeeded == InitSeeded /\ [][NextSeeded]_vars

----------------------------------------------------------------------------
(* Chunking: AdaptiveChunking and ChunkingPipeline.processDocuments *)
(* A metadata object is the function from its keys to their values; the    *)
(* splitters are the library's: what is known of their output is that it   *)
(* is a list of pieces of the text.  Piece j of the content of the d-th     *)
(* document is the text [doc |-> d, piece |-> j].                           *)

\* the most documents passed to processDocuments
MaxDocs == 2

\* the most pieces a splitter cuts a text into
MaxPieces == 2

\* an object literal that lets the spread object override the keys written after it
spreadUnder(object, keys) ==
    [key \in DOMAIN object \cup DOMAIN keys |->
        IF key \in DOMAIN object THEN object[key] ELSE keys[key]]

\* {...object, key: value, ...}: the keys written after the spread override it
spread(object, keys) ==
    [key \in DOMAIN object \cup DOMAIN keys |->
        IF key \in DOMAIN keys THEN keys[key] ELSE object[key]]

\* SemanticChunking.chunk and TokenBasedChunking.chunk, which differ in their
\* splitter and their name: docs.map((doc, index) => ...)
strategyChunk(name, docs, metadata) ==
    [i \in 1..Len(docs) |->
        [pageContent |-> docs[i],
         metadata |-> spread(metadata, [chunkIndex |-> i - 1, chunkingStrategy |-> name])]]

\* AdaptiveChunking.chunk on a text of the given content type that the chosen
\* splitter cuts into docs
AdaptiveChunking_chunk(contentType, docs, metadata) ==
    LET chunks == strategyChunk(IF contentType = "structured" THEN "token" ELSE "semantic",
                                docs, metadata)
    IN  [i \in 1..Len(chunks) |->
            [pageContent |-> chunks[i].pageContent,
             metadata |-> spread(chunks[i].metadata,
                                 [contentType |-> contentType,
                                  hasPrevious |-> i - 1 > 0,
                                  hasNext |-> i - 1 < Len(chunks) - 1,
                                  totalChunks |-> Len(chunks)])]]

\* processDocuments: one turn of its loop, for the next document
processDocuments_chunk ==
    /\ cpDone < Len(cpDocuments)
    /\ \E n \in 0..MaxPieces :
           LET doc == cpDocuments[cpDone + 1]
               docs == [j \in 1..n |-> [doc |-> cpDone + 1, piece |-> j]]
               chunks == AdaptiveChunking_chunk(doc.contentType, docs, doc.metadata)
               enhancedChunks ==
                   [i \in 1..Len(chunks) |->
                       [pageContent |-> chunks[i].pageContent,
                        metadata |-> spread(chunks[i].metadata,
                                            [sourceDocument |->
                                                 IF "source" \in DOMAIN doc.metadata
                                                 THEN doc.metadata.source ELSE "unknown",
                                             timestamp |-> "toISOString"])]]
           IN  allChunks' = allChunks \o enhancedChunks
    /\ cpDone' = cpDone + 1
    /\ UNCHANGED <<storeDocuments, storeEmbeddings, addCalls, mockLog, cpDocuments>>
    /\ UNCHANGED <<hsVars, rrVars, plVars, cfVars>>

\* the documents passed: texts of the three content types, with no metadata, with
\* a source, or with metadata that already has the keys the chunkers write
RECURSIVE ChunkedDocuments(_)
ChunkedDocuments(n) ==
    IF n = 0 THEN { <<>> }
    ELSE ChunkedDocuments(n - 1) \cup
         { Append(l, [contentType |-> t, metadata |-> m]) :
               l \in { u \in ChunkedDocuments(n - 1) : Len(u) = n - 1 },
               t \in {"code", "structured", "narrative"},
               m \in { <<>>, [source |-> "a.md"],
                       [source |-> "b.md", chunkIndex |-> 7, totalChunks |-> 9,
                        hasPrevious |-> TRUE, hasNext |-> TRUE] } }

\* a call processDocuments(documents) of a ChunkingPipeline with the default strategy
InitChunking ==
    /\ hsIdle
    /\ rrIdle
    /\ plIdle
    /\ cfIdle
    /\ storeDocuments = <<>>
    /\ storeEmbeddings = <<>>
    /\ addCalls = <<>>
    /\ mockLog = <<>>
    /\ cpDocuments \in ChunkedDocuments(MaxDocs)
    /\ cpDone = 0
    /\ allChunks = <<>>

NextChunking == processDocuments_chunk

SpecChunking == InitChunking /\ [][NextChunking]_vars

\* C26: chunk i (from 0) of the n chunks of a text has chunkIndex i, totalChunks n,
\* hasPrevious exactly when i > 0 and hasNext exactly when i < n - 1; in the
\* output of processDocuments the indices restart at 0 for each document, and
\* the chunks are in document order, then in chunk order
C26_ChunkPositions ==
    /\ \A p \in 1..Len(allChunks) :
           LET d == allChunks[p].pageContent.doc
               i == allChunks[p].pageContent.piece - 1
               n == Cardinality({ q \in 1..Len(allChunks) : allChunks[q].pageContent.doc = d })
               m == allChunks[p].metadata
           IN  /\ m.chunkIndex = i
               /\ m.totalChunks = n
               /\ m.hasPrevious = (i > 0)
               /\ m.hasNext = (i < n - 1)
               /\ i = 0 \/ (p > 1 /\ allChunks[p - 1].pageContent.doc = d
                                  /\ allChunks[p - 1].metadata.chunkIndex = i - 1)
    /\ \A p, q \in 1..Len(allChunks) :
           p < q =>
               \/ allChunks[p].pageContent.doc < allChunks[q].pageContent.doc
               \/ /\ allChunks[p].pageContent.doc = allChunks[q].pageContent.doc
                  /\ allChunks[p].metadata.chunkIndex < allChunks[q].metadata.chunkIndex

\* C26 witness: two documents cut into two chunks each, the second with metadata
\* that already had a chunkIndex, all four chunks returned
C26_Witness ==
    /\ Len(cpDocuments) = 2
    /\ cpDone = 2
    /\ "chunkIndex" \in DOMAIN cpDocuments[2].metadata
    /\ Len(allChunks) = 4
    /\ allChunks[2].metadata.chunkIndex = 1
    /\ allChunks[3].metadata.chunkIndex = 0
    /\ allChunks[3].metadata.hasNext
    /\ ~allChunks[3].metadata.hasPrevious
    /\ allChunks[4].metadata.totalChunks = 2

----------------------------------------------------------------------------
(* A pipeline from its construction on: initialize(), query() and           *)
(* streamQuery() called one after the other                                 *)

\* an initialize() that seeds the pipeline's store with a sample document
RAGPipeline_initialize_seeding ==
    /\ plPc \in {"idle", "resolved", "rejected"}
    /\ Len(mockLog) < 3
    /\ mockLog' = Append(mockLog, "initialize")
    /\ msDocuments' = Append(msDocuments, [pageContent |-> textApiApi])
    /\ UNCHANGED <<isMockMode, plOp, question, useReranking, useHybridSearch, plPc,
                   plError, retrieved, searchResults, ragResponse, events, hybridSearchCalls,
                   rerankerCalls, llmContexts, llmStream, llmRead, pulls, clockTicks, now,
                   rerankingStart, metrics>>
    /\ UNCHANGED <<storeDocuments, storeEmbeddings, addCalls, cpDocuments, cpDone, allChunks>>
    /\ UNCHANGED <<hsVars, rrVars, cfVars>>

\* initialize(): await this.vectorStore.initialize(), which in mock mode logs a
\* line and in live mode creates the collection and its indexes when missing
RAGPipeline_initialize ==
    /\ plPc \in {"idle", "resolved", "rejected"}
    /\ Len(mockLog) < 3
    /\ mockLog' = Append(mockLog, "initialize")
    /\ UNCHANGED <<storeDocuments, storeEmbeddings, addCalls, cpDocuments, cpDone, allChunks>>
    /\ UNCHANGED <<hsVars, rrVars, plVars, cfVars>>

\* the next call of query or streamQuery, made when the last operation is over
RAGPipeline_call ==
    /\ plPc \in {"idle", "resolved", "rejected"}
    /\ Len(mockLog) < 3
    /\ \E op \in {"query", "streamQuery"}, q \in Questions, reranking, hybrid \in BOOLEAN :
           /\ isMockMode \/ (q = textApi /\ hybrid)
           /\ plOp' = op
           /\ question' = q
           /\ useReranking' = reranking
           /\ useHybridSearch' = hybrid
           /\ mockLog' = Append(mockLog, op)
    /\ plPc' = "called"
    /\ plError' = ""
    /\ retrieved' = <<>>
    /\ searchResults' = <<>>
    /\ ragResponse' = <<>>
    /\ events' = <<>>
    /\ hybridSearchCalls' = 0
    /\ rerankerCalls' = 0
    /\ llmContexts' = <<>>
    /\ llmStream' = <<>>
    /\ llmRead' = 0
    /\ pulls' = 0
    /\ now' = 0
    /\ rerankingStart' = 0
    /\ metrics' = noMetrics
    /\ rrMock' = FALSE
    /\ rrQuery' = <<>>
    /\ rrResults' = <<>>
    /\ rrTopK' = 0
    /\ rrPc' = "idle"
    /\ rrReturn' = <<>>
    /\ cohereCalls' = 0
    /\ cohereFailures' = 0
    /\ UNCHANGED <<isMockMode, msDocuments, clockTicks>>
    /\ UNCHANGED <<storeDocuments, storeEmbeddings, addCalls, cpDocuments, cpDone, allChunks>>
    /\ UNCHANGED <<hsVars, cfVars>>

\* new RAGPipeline(), in mock or live mode: its MockVectorStore holds no document
InitLifecycle ==
    /\ hsIdle
    /\ rrIdle
    /\ noOperation
    /\ isMockMode \in BOOLEAN
    /\ msDocuments = <<>>
    /\ cfIdle
    /\ mkIdle

NextLifecycle ==
    \/ RAGPipeline_initialize
    \/ RAGPipeline_call
    \/ NextPipeline

SpecLifecycle == InitLifecycle /\ [][NextLifecycle]_vars

====
